---- MODULE Spec2Model ----
(***************************************************************************)
(* A model of swauth (src/swauth/middleware.py): the Swauth middleware's   *)
(* token lifecycle (grant, validation, cache, revocation), the v2 admin    *)
(* handlers for users, the admin gate, and the authorize callback.         *)
(*                                                                         *)
(* Names are Python strings, modelled as TLA+ strings; the string          *)
(* operations the code uses (startswith, indexing, split, join) are        *)
(* computed on the characters.  Time is a discrete clock; uuid4() is a     *)
(* counter of fresh identifiers.                                           *)
(***************************************************************************)
EXTENDS Integers, Sequences, FiniteSets, TLC

\* ------------------------------------------------------------------ bounds
\* the clock runs from 0 to MaxTime
MaxTime == 2
\* at most MaxTokens user tokens are ever minted (uuid4 draws)
MaxTokens == 2
\* a container listing returns at most PageLimit names per request
PageLimit == 1
\* at most MaxItokens internal tokens are ever minted (uuid4 draws)
MaxItokens == 3

\* ------------------------------------------------------- configuration
reseller_prefix == "AUTH_"
auth_account == reseller_prefix \o ".auth"
auth_prefix == "/auth/"
super_admin_key == "supersecret"
allowed_sync_hosts == {"127.0.0.1"}
\* default_swift_cluster = 'local#http://127.0.0.1:8080/v1'
dsc_name == "local"
dsc_url == "http://127.0.0.1:8080/v1"
dsc_url2 == dsc_url

\* ------------------------------------------------------ string helpers
\* swauth.authtypes.MAX_TOKEN_LENGTH
MAX_TOKEN_LENGTH == 5000

\* Python's None where a string is expected; a missing object of the store
None == "<None>"
Missing == [missing |-> TRUE]
\* a request or response without a (parsable JSON) body
NoBody == [nobody |-> TRUE]

startswith(s, p) == Len(s) >= Len(p) /\ SubSeq(s, 1, Len(p)) = p

\* s[i] with Python's 0-based index
CharAt(s, i) == SubSeq(s, i + 1, i + 1)

HasChar(s, c) == \E i \in 1..Len(s) : SubSeq(s, i, i) = c

FirstIndex(s, c) ==
    CHOOSE i \in 1..Len(s) :
        SubSeq(s, i, i) = c /\ \A j \in 1..(i - 1) : SubSeq(s, j, j) # c

\* Python's 'sub in s' for strings: sub occurs somewhere in s
Contains(s, sub) ==
    \E i \in 1..(Len(s) - Len(sub) + 1) : SubSeq(s, i, i + Len(sub) - 1) = sub

\* s.split(sep): the list of the parts of s between separators
RECURSIVE split(_, _)
split(s, sep) ==
    IF ~HasChar(s, sep) THEN <<s>>
    ELSE LET i == FirstIndex(s, sep)
         IN  <<SubSeq(s, 1, i - 1)>> \o split(SubSeq(s, i + 1, Len(s)), sep)

\* sep.join(parts)
RECURSIVE join(_, _)
join(parts, sep) ==
    IF parts = <<>> THEN ""
    ELSE IF Len(parts) = 1 THEN parts[1]
    ELSE parts[1] \o sep \o join(Tail(parts), sep)

InSeq(x, seq) == \E i \in 1..Len(seq) : seq[i] = x

Min(a, b) == IF a < b THEN a ELSE b

\* list.remove(x): the list without the first occurrence of x
RemoveFirst(seq, x) ==
    IF ~InSeq(x, seq) THEN seq
    ELSE LET i == CHOOSE k \in 1..Len(seq) :
                      seq[k] = x /\ \A j \in 1..(k - 1) : seq[j] # x
         IN  SubSeq(seq, 1, i - 1) \o SubSeq(seq, i + 1, Len(seq))

\* ------------------------------------------------------------ variables
VARIABLES
    conf,         \* the configuration the middleware was constructed with
    now,          \* time()
    users,        \* user objects AUTH_.auth/<a>/<u>
    tokens,       \* token objects AUTH_.auth/.token_<x>/<hash>
    cache,        \* the shared memcache, keyed by token
    containers,   \* account containers AUTH_.auth/<a> (metadata)
    services,     \* .services objects AUTH_.auth/<a>/.services
    mappings,     \* mapping objects AUTH_.auth/.account_id/<account id>
    clusters,     \* the storage accounts on each Swift cluster
    itoken,       \* this process's internal token, its expiry, its cache entry
    minted,       \* number of uuid4 draws for tokens and account ids so far
    revoked,      \* history: tokens a forced-new-token grant has revoked
    req,          \* the last admin/token request handled
    resp,         \* its response
    areq,         \* the last request given to authorize
    aresp,        \* authorize's answer
    race          \* the requests in flight that interleave at store requests

vars == <<conf, now, users, tokens, cache, containers, services, mappings,
          clusters, itoken, minted, revoked, req, resp, areq, aresp, race>>

\* conf's token_life and max_token_life, in clock ticks
token_life == conf.token_life
max_token_life == conf.max_token_life
\* the configuration with every option but super_admin_key at its default:
\* max_token_life is token_life, keys are stored as plaintext, no salt is
\* set, S3 support is off, overrides are allowed
DefaultConf ==
    [token_life |-> 1, max_token_life |-> 1, auth_type |-> "Plaintext",
     auth_type_salt |-> None, s3_support |-> FALSE, allow_overrides |-> TRUE]
\* S3 support as configured, whatever the codec
s3_support_as_configured == conf.s3_support
\* self.s3_support: switched off at construction when keys are hashed and no
\* salt is configured
s3_support ==
    conf.s3_support
    /\ (conf.auth_type = "Plaintext" \/ conf.auth_type_salt # None)
allow_overrides == conf.allow_overrides

\* ----------------------------------------------------------- authorize
\* req.acl as parse_acl reads it: entries '.r:<host>' are referrers, every
\* other entry is a group
parse_acl(acl) ==
    IF acl = None \/ acl = "" THEN [referrers |-> <<>>, groups |-> <<>>]
    ELSE LET parts == split(acl, ",")
             isRef(v) == startswith(v, ".r:")
         IN  [referrers |-> [i \in 1..Len(SelectSeq(parts, isRef)) |->
                               SubSeq(SelectSeq(parts, isRef)[i], 4,
                                      Len(SelectSeq(parts, isRef)[i]))],
              groups |-> SelectSeq(parts, LAMBDA v : ~isRef(v))]

\* a referrer test in which '*' is a host name like any other
referrer_allowed_exact(referer, referrers) ==
    LET rhost == IF referer = None \/ referer = "" THEN "unknown" ELSE referer
    IN  \E i \in 1..Len(referrers) : referrers[i] = rhost
\* referrer_allowed(req.referer, referrers): the last matching entry decides;
\* '*' matches every host, '-host' denies the host
referrer_allowed(referer, referrers) ==
    LET rhost == IF referer = None \/ referer = "" THEN "unknown" ELSE referer
        Matches(m) == m = "*" \/ m = rhost
        Hits == {i \in 1..Len(referrers) :
                    IF startswith(referrers[i], "-")
                    THEN SubSeq(referrers[i], 2, Len(referrers[i])) = rhost
                    ELSE Matches(referrers[i])}
        Last == CHOOSE i \in Hits : \A j \in Hits : j <= i
    IN  Hits # {} /\ ~startswith(referrers[Last], "-")

\* denied_response: 403 when a principal is set or the admin credentials were
\* valid, 401 otherwise
denied_response(remote_user, credentials_valid) ==
    IF remote_user # "" \/ credentials_valid THEN 403 ELSE 401

\* (req.remote_user or '').split(',')
user_groups_of(remote_user) == split(remote_user, ",")

\* not account or not account.startswith(self.reseller_prefix)
OutsideResellerEmptyOnly(account) == account = ""
OutsideReseller(account) ==
    account = "" \/ ~startswith(account, reseller_prefix)

\* the reseller-admin rule with only the bare prefix and the auth account
\* left out
ResellerAdminRuleAuthOnly(r) ==
    /\ InSeq(".reseller_admin", user_groups_of(r.remote_user))
    /\ r.account \notin {reseller_prefix, auth_account}
\* '.reseller_admin' in user_groups, on an account that is not the bare
\* prefix and whose name after the prefix does not begin with '.'
ResellerAdminRule(r) ==
    /\ InSeq(".reseller_admin", user_groups_of(r.remote_user))
    /\ r.account # reseller_prefix
    /\ CharAt(r.account, Len(reseller_prefix)) # "."

\* the account-admin rule without its method test
AccountAdminRuleAnyMethod(r) == InSeq(r.account, user_groups_of(r.remote_user))
\* account in user_groups, and not an account DELETE or PUT
AccountAdminRule(r) ==
    /\ InSeq(r.account, user_groups_of(r.remote_user))
    /\ (r.method \notin {"DELETE", "PUT"} \/ r.container # "")

\* a container-sync rule that does not look at where the request comes from
SyncRuleAnyHost(r) ==
    /\ r.swift_sync_key # ""
    /\ r.swift_sync_key = r.x_container_sync_key
    /\ r.x_timestamp
\* the container-sync rule: the container's sync key (swift_sync_key) is set
\* and is the request's x-container-sync-key, x-timestamp is present, and
\* remote_addr or get_remote_client(req) is an allowed sync host
SyncRule(r) ==
    /\ r.swift_sync_key # ""
    /\ r.swift_sync_key = r.x_container_sync_key
    /\ r.x_timestamp
    /\ (r.remote_addr \in allowed_sync_hosts
        \/ r.remote_client \in allowed_sync_hosts)

\* Swauth.authorize: status 0 is Python's None, the request may continue
authorize(r) ==
    LET acl == parse_acl(r.acl)
        ug == user_groups_of(r.remote_user)
        deny == [status |-> denied_response(r.remote_user, FALSE),
                 swift_owner |-> FALSE]
        allow == [status |-> 0, swift_owner |-> FALSE]
    IN  IF ~r.path_ok THEN [status |-> 404, swift_owner |-> FALSE]
        ELSE IF OutsideReseller(r.account) THEN deny
        ELSE IF ResellerAdminRule(r) THEN [status |-> 0, swift_owner |-> TRUE]
        ELSE IF AccountAdminRule(r) THEN [status |-> 0, swift_owner |-> TRUE]
        ELSE IF SyncRule(r) THEN allow
        ELSE IF referrer_allowed(r.referer, acl.referrers)
        THEN IF r.obj # "" \/ InSeq(".rlistings", acl.groups) THEN allow
             ELSE deny
        ELSE IF r.remote_user = "" THEN deny
        ELSE IF \E i \in 1..Len(ug) : InSeq(ug[i], acl.groups) THEN allow
        ELSE deny

\* the requests authorize is applied to
AuthzPaths ==
    {[account |-> a, container |-> c, obj |-> o] :
        a \in {"", "AUTH_", "AUTH_.auth", "AUTH_.sys", "AUTH_cfa", "OTHER_cfa"},
        c \in {"", "c"}, o \in {"", "o"}}
AuthzPrincipals ==
    {"", "act:usr,act", "act:usr,act,AUTH_cfa", "act:usr,act,.reseller_admin",
     "sys:usr,sys,AUTH_.sys", "oth:usr,oth,OTHER_cfa"}
AuthzAcls == {None, "act", "act2,act:usr", ".r:*", ".r:*,.rlistings",
              ".r:example.com,.r:-evil.com,oth"}
AuthzSync ==
    {[swift_sync_key |-> k, x_container_sync_key |-> h, x_timestamp |-> t,
      remote_addr |-> ra, remote_client |-> rc] :
        k \in {"", "secret"}, h \in {"", "secret", "wrong"}, t \in BOOLEAN,
        ra \in {"127.0.0.1", "10.1.1.1"}, rc \in {"127.0.0.1", "10.1.1.1"}}
AuthzGoodPaths ==
    {[path_ok |-> TRUE, account |-> p.account, container |-> p.container,
      obj |-> p.obj, method |-> m, remote_user |-> ru, acl |-> acl,
      referer |-> ref, swift_sync_key |-> "", x_container_sync_key |-> "",
      x_timestamp |-> FALSE, remote_addr |-> "10.1.1.1",
      remote_client |-> "10.1.1.1"] :
        p \in {q \in AuthzPaths : q.obj # "" => q.container # ""},
        m \in {"GET", "PUT", "DELETE"}, ru \in AuthzPrincipals,
        acl \in AuthzAcls, ref \in {"", "example.com", "evil.com"}}
\* every path, method, principal, ACL and Referer without sync headers; the
\* sync headers on container and object requests with no ACL; and a path
\* split_path refuses
AuthzRequests ==
    AuthzGoodPaths
    \cup {[r EXCEPT !.swift_sync_key = s.swift_sync_key,
                    !.x_container_sync_key = s.x_container_sync_key,
                    !.x_timestamp = s.x_timestamp,
                    !.remote_addr = s.remote_addr,
                    !.remote_client = s.remote_client] :
            r \in {q \in AuthzGoodPaths : q.acl = None /\ q.referer = ""
                                          /\ q.container # ""},
            s \in AuthzSync}
    \cup {[r EXCEPT !.path_ok = FALSE] :
            r \in {q \in AuthzGoodPaths : q.acl = None /\ q.referer = ""
                                          /\ q.method = "GET"}}

Idle == [idle |-> TRUE]

\* the proxy calls the authorize hook with the request it holds
Authorize ==
    /\ areq # Idle
    /\ aresp = Idle
    /\ aresp' = authorize(areq)
    /\ UNCHANGED areq
    /\ UNCHANGED <<conf, now, users, tokens, cache, containers, services,
                   mappings, clusters, itoken, minted, revoked, req, resp, race>>


\* ------------------------------------------------------ the auth store
Accounts == {"act", "oth"}
\* the users of the administration scenarios, and a user whose name holds
\* the name of a group
StockUserNames == {"usr", "adm"}
UserNames == StockUserNames \cup {"usr.reseller_admin"}
UserIds == Accounts \X UserNames

\* uuid4().hex for the n-th draw
uuid4(n) == <<"0a", "1b", "2c", "3d", "4e", "5f">>[n]
\* '%stk%s' % (self.reseller_prefix, uuid4().hex)
TokenName(n) == reseller_prefix \o "tk" \o uuid4(n)
\* the tokens a request may carry: every token that can be minted (one not
\* minted yet is an unknown token)
Tokens == {TokenName(n) : n \in 1..MaxTokens}

\* _get_concealed_token: the token object's name, a hash of the token
_get_concealed_token(token) == "sha512(:" \o token \o ":)"
ObjNames == {_get_concealed_token(t) : t \in Tokens}

\* the shared cache is configured (cache_from_env returns a client)
memcache_client == TRUE

\* GET/HEAD of AUTH_.auth/<account>/<user>: the object or Missing (404)
UserObj(account, user) ==
    IF <<account, user>> \in UserIds THEN users[<<account, user>>] ELSE Missing

\* GET of the token object of a token
TokenObj(token) ==
    IF token \in Tokens THEN tokens[_get_concealed_token(token)] ELSE Missing

ContainerObj(account) ==
    IF account \in Accounts THEN containers[account] ELSE Missing

CacheGet(token) == IF token \in DOMAIN cache THEN cache[token] ELSE Missing

\* the account ids in use: the reseller prefix and a suffix, given in
\* X-Account-Suffix or drawn by uuid4
Suffixes == Accounts \cup {"sfx"}
AcctIds == {reseller_prefix \o x : x \in Suffixes}
           \cup {reseller_prefix \o uuid4(n) : n \in 1..MaxTokens}

\* GET of AUTH_.auth/.account_id/<account id>
MappingObj(account_id) ==
    IF account_id \in AcctIds THEN mappings[account_id] ELSE Missing

\* urlparse(url) of an http url: netloc and path
urlparse(url) ==
    LET rest == SubSeq(url, Len("http://") + 1, Len(url))
        i == IF HasChar(rest, "/") THEN FirstIndex(rest, "/") ELSE Len(rest) + 1
    IN  [scheme |-> SubSeq(url, 1, Len("http")),
         netloc |-> SubSeq(rest, 1, i - 1),
         path |-> SubSeq(rest, i, Len(rest))]

\* the Swift clusters, by the netloc get_conn connects to
ClusterHosts == {urlparse(dsc_url2).netloc, "10.0.0.2:8080"}

\* the storage account a cluster request path '<prefix>/<account id>' names
StorageAccount(path) == SubSeq(path, Len(urlparse(dsc_url2).path) + 2, Len(path))

\* the names a listing returns, in the store's sort order ('.' sorts before
\* the letters)
SortedNames == <<".services", "act", "adm", "oth", "usr">>
Rank(name) ==
    IF name = "" THEN 0 ELSE CHOOSE i \in 1..Len(SortedNames) : SortedNames[i] = name

\* GET AUTH_.auth/<account>?format=json: the object names of the container
ContainerListing(account, us, svs) ==
    SelectSeq(SortedNames,
              LAMBDA n : \/ n = ".services" /\ svs[account] # Missing
                         \/ <<account, n>> \in UserIds /\ us[<<account, n>>] # Missing)

\* GET AUTH_.auth?format=json: the containers of the auth account that stand
\* for accounts (.account_id and .token_<x> begin with '.')
AuthAccountListing(cs) ==
    SelectSeq(SortedNames, LAMBDA n : n \in Accounts /\ cs[n] # Missing)

\* one page of a listing: the first PageLimit names after the marker
ListPage(names, marker) ==
    LET rest == SelectSeq(names, LAMBDA n : Rank(n) > Rank(marker))
    IN  SubSeq(rest, 1, Min(PageLimit, Len(rest)))

\* ------------------------------------------------- credentials (authtypes)
\* the salts and the keys whose digests are tabulated
HashSalts == {"salt", "rnd1"}
HashKeys == {"key", "key2", "keystring"}

\* hashlib.sha1(s).hexdigest()
sha1_hexdigest(s) ==
    CASE s = "saltkey" ->
             "dfb8ddda7c9d815199620a5a3268b5fd0a20e2be"
      [] s = "saltkey2" ->
             "01305996ee948783d1e4640a42350b1dc4fa7262"
      [] s = "saltkeystring" ->
             "d50dc700c296e23ce5b41f7431a0e01f69010f06"
      [] s = "rnd1key" ->
             "435318954d669887a6d36ded5a0833ff5c8ce94c"
      [] s = "rnd1key2" ->
             "59a546c40c0f1f94e60e6b27598a54bffe33d3ff"
      [] s = "rnd1keystring" ->
             "db9605facf6918300bf23240f575e01c57c529fc"

\* hashlib.sha512(s).hexdigest()
sha512_hexdigest(s) ==
    CASE s = "saltkey" ->
             "e13358c97a74f036c9d5050b2dab4fb7ad37da81784a326794f946d0dcb4ca86"
             \o "96a64cb6c1775c3837069eff18aa0d351cfe20eeebf8bb4d63be6ba627aa7cc8"
      [] s = "saltkey2" ->
             "ce9c0b43c07d49c0e5e779e55effc62ec16da176dce2fc27a8253e6d48450e27"
             \o "5665522543dfffc1b98ce3b182fff6e057dd8312d3f457eb46f4921355363dad"
      [] s = "saltkeystring" ->
             "482e73705fac6909e2d78e8bbaf65ac3ca14738f445cc2367b7daa3f0e8f3dcf"
             \o "e798e426b9e332776c8da59c0c11d4832931d1bf48830f670ecc6ceb04fbad0f"
      [] s = "rnd1key" ->
             "9396e4a6d8c0010d6a027c6a9d587167a14c639be540ef15c59fcf7ebb606481"
             \o "17cc51fb624214be5ea23d121e5f355fc145d45ef9a6c848447641f112ad4ec6"
      [] s = "rnd1key2" ->
             "2a32c01d2ccbfb43d07375bc26f1fc525098fbdda06b2e3abf639b9990e9aef6"
             \o "5fa4519e0d380c68b2d897d17a0cc95506d4a9d69079a4b8a32d66716e159457"
      [] s = "rnd1keystring" ->
             "a8d4cb87044dba3e91b2d8ee7cefc1a2d9fa40e4a6d6bbbdb36bf4e4cea71f47"
             \o "f2f3b3331098577308580939176510b275e9bcd9ed86b8b1a320fc90b8384f2a"

HexDigits == {"0", "1", "2", "3", "4", "5", "6", "7", "8", "9",
              "a", "b", "c", "d", "e", "f"}
IsHex(s) == \A i \in 1..Len(s) : SubSeq(s, i, i) \in HexDigits

\* Plaintext.encode
plaintext_encode(key) == "plaintext:" \o key
\* Sha1.encode_w_salt
sha1_encode_w_salt(salt, key) ==
    "sha1:" \o salt \o "$" \o sha1_hexdigest(salt \o key)
\* Sha512.encode_w_salt
sha512_encode_w_salt(salt, key) ==
    "sha512:" \o salt \o "$" \o sha512_hexdigest(salt \o key)

\* the credential type a codec class writes
auth_type_name(auth_type) ==
    CASE auth_type = "Plaintext" -> "plaintext"
      [] auth_type = "Sha1" -> "sha1"
      [] auth_type = "Sha512" -> "sha512"

\* the codec of a type encoding a key with a salt
encode_w_salt(type, salt, key) ==
    CASE type = "plaintext" -> plaintext_encode(key)
      [] type = "sha1" -> sha1_encode_w_salt(salt, key)
      [] type = "sha512" -> sha512_encode_w_salt(salt, key)

\* self.auth_encoder().encode(key): the configured codec, with the configured
\* salt or, when none is configured, the fresh random salt urandom
encode(key, urandom) ==
    encode_w_salt(auth_type_name(conf.auth_type),
                  IF conf.auth_type_salt # None THEN conf.auth_type_salt
                  ELSE urandom,
                  key)

\* the length of the hexadecimal digest of a salted type
HashLen(type) == IF type = "sha1" THEN 40 ELSE 128

\* validate_creds: the parsed credential, or ok = FALSE for a ValueError
validate_creds(creds) ==
    IF ~HasChar(creds, ":")
    THEN [ok |-> FALSE, type |-> "", salt |-> None, hash |-> ""]
    ELSE LET i == FirstIndex(creds, ":")
             type == SubSeq(creds, 1, i - 1)
             rest == SubSeq(creds, i + 1, Len(creds))
         IN  IF type = "plaintext"
             THEN [ok |-> rest # "", type |-> type, salt |-> None,
                   hash |-> rest]
             ELSE IF type \notin {"sha1", "sha512"} \/ ~HasChar(rest, "$")
             THEN [ok |-> FALSE, type |-> type, salt |-> None, hash |-> rest]
             ELSE LET j == FirstIndex(rest, "$")
                      salt == SubSeq(rest, 1, j - 1)
                      hash == SubSeq(rest, j + 1, Len(rest))
                  IN  [ok |-> /\ salt # ""
                              /\ Len(hash) = HashLen(type)
                              /\ IsHex(hash),
                       type |-> type, salt |-> salt, hash |-> hash]

\* auth_encoder.match(key, creds, **creds_dict) of the codec of the
\* credential's type: the key encoded with the credential's salt is creds
match(creds_dict, key, creds) ==
    encode_w_salt(creds_dict.type, creds_dict.salt, key) = creds

\* a comparison made with the configured codec instead of the stored one
credentials_match_configured(user_detail, key) ==
    /\ user_detail # Missing
    /\ validate_creds(user_detail.auth).ok
    /\ encode_w_salt(auth_type_name(conf.auth_type),
                     validate_creds(user_detail.auth).salt, key)
         = user_detail.auth
\* Swauth.credentials_match
credentials_match(user_detail, key) ==
    /\ user_detail # Missing
    /\ validate_creds(user_detail.auth).ok
    /\ match(validate_creds(user_detail.auth), key, user_detail.auth)

\* ------------------------------------------------------- the admin gate
\* Swauth.get_admin_detail: the admin user's record with its account
get_admin_detail(h) ==
    IF ~HasChar(h.admin_user, ":") THEN Missing
    ELSE LET i == FirstIndex(h.admin_user, ":")
             admin_account == SubSeq(h.admin_user, 1, i - 1)
             admin_user == SubSeq(h.admin_user, i + 1, Len(h.admin_user))
             detail == UserObj(admin_account, admin_user)
         IN  IF detail = Missing THEN Missing
             ELSE [auth |-> detail.auth, groups |-> detail.groups,
                   account |-> admin_account]

\* Swauth.is_super_admin
is_super_admin(h) ==
    /\ h.admin_user = ".super_admin"
    /\ super_admin_key # ""
    /\ h.admin_key = super_admin_key

\* Swauth.is_reseller_admin: ok, and req.credentials_valid as it leaves it
is_reseller_admin(h) ==
    LET admin_detail == get_admin_detail(h)
    IN  IF is_super_admin(h) THEN [ok |-> TRUE, cv |-> FALSE]
        ELSE IF ~credentials_match(admin_detail, h.admin_key)
        THEN [ok |-> FALSE, cv |-> FALSE]
        ELSE [ok |-> InSeq(".reseller_admin", admin_detail.groups),
              cv |-> TRUE]

\* Swauth.is_account_admin
is_account_admin(h, account) ==
    LET admin_detail == get_admin_detail(h)
    IN  IF is_super_admin(h) THEN [ok |-> TRUE, cv |-> FALSE]
        ELSE IF admin_detail = Missing THEN [ok |-> FALSE, cv |-> FALSE]
        ELSE IF is_reseller_admin(h).ok THEN [ok |-> TRUE, cv |-> TRUE]
        ELSE IF ~credentials_match(admin_detail, h.admin_key)
        THEN [ok |-> FALSE, cv |-> FALSE]
        ELSE [ok |-> admin_detail.account = account
                     /\ InSeq(".admin", admin_detail.groups),
              cv |-> TRUE]

\* Swauth.is_user_changing_own_key
is_user_changing_own_key(h, user) ==
    LET admin_detail == get_admin_detail(h)
    IN  IF admin_detail = Missing THEN FALSE
        ELSE IF ~InSeq(".admin", admin_detail.groups)
                /\ (h.x_auth_user_admin \/ h.x_auth_user_reseller_admin)
        THEN FALSE
        ELSE IF ~InSeq(".reseller_admin", admin_detail.groups)
                /\ h.x_auth_user_reseller_admin
        THEN FALSE
        ELSE h.admin_user = user /\ credentials_match(admin_detail, h.admin_key)

\* Swauth.is_user_reseller_admin: the answer, and req.credentials_valid
is_user_reseller_admin(account, user) ==
    LET user_detail == UserObj(account, user)
    IN  IF user_detail = Missing THEN [ok |-> FALSE, cv |-> FALSE]
        ELSE [ok |-> InSeq(".reseller_admin", user_detail.groups),
              cv |-> TRUE]

\* the gate reads the admin user's object unless the caller is the super
\* admin or names no 'account:user'
GateReadsStore(h) == ~is_super_admin(h) /\ HasChar(h.admin_user, ":")


\* ------------------------------------------------- requests and outcomes
\* a response without X-Auth-TTL / X-Auth-Token-Expires
NoTtl == -1

\* a request without swift3.auth_details
NoS3 == [access_key |-> None, signature |-> None, string_to_sign |-> None]

\* a request with every header absent; fail names the kind of backing-store
\* request ("user_get", "token_delete", ...) that is answered 5xx while the
\* request is handled, "none" when the store answers them all
BlankReq ==
    [op |-> "none", account |-> "", user |-> "", key |-> "", key_hash |-> "",
     token |-> "", new_token |-> FALSE, lifetime |-> "",
     admin_user |-> "", admin_key |-> "",
     x_auth_user_admin |-> FALSE, x_auth_user_reseller_admin |-> FALSE,
     suffix |-> "", body |-> NoBody, order |-> <<>>,
     method |-> "GET", path_info |-> "", keystone_identity |-> FALSE,
     authorize_override |-> FALSE, swift_authorize |-> "", s3 |-> NoS3,
     urandom |-> "rnd1", fail |-> "none", fail_name |-> ""]

\* what a handler leaves behind: the response and the store and cache
Outcome(status) ==
    [status |-> status, token |-> None, groups |-> None, ttl |-> NoTtl,
     body |-> NoBody,
     users |-> users, tokens |-> tokens, cache |-> cache, minted |-> minted,
     containers |-> containers, services |-> services, mappings |-> mappings,
     clusters |-> clusters, itoken |-> itoken,
     route |-> "", swift_authorize |-> "", validated |-> FALSE,
     reseller_request |-> FALSE,
     faulted |-> FALSE, over |-> FALSE]

\* the outcome of a handler one of whose store requests was answered 5xx
Faulted(o) == [o EXCEPT !.faulted = TRUE]

\* ------------------------------------------------------ token validation
\* the cached groups of a token, None on a miss or an expired entry
CachedGroups(token) ==
    IF ~memcache_client \/ CacheGet(token) = Missing THEN None
    ELSE IF CacheGet(token).expires < now THEN None
    ELSE CacheGet(token).groups

\* a validation that never finds a token object expired
NeverExpired(detail) == FALSE
\* detail['expires'] < time()
TokenExpired(detail) == detail.expires < now

\* the groups of a token object, '.admin' replaced by the account id
TranslateGroups(detail) ==
    join(IF InSeq(".admin", detail.groups)
         THEN Append(RemoveFirst(detail.groups, ".admin"), detail.account_id)
         ELSE detail.groups, ",")

\* the DELETE of an expired token object, its response ignored
ReapToken(token, fail) ==
    IF fail = "token_delete" THEN tokens
    ELSE [tokens EXCEPT ![_get_concealed_token(token)] = Missing]

\* a cache write of the stored groups as they are, '.admin' not replaced
CacheSetUntranslated(token, detail) ==
    [cache EXCEPT ![token] = [expires |-> detail.expires,
                              groups |-> join(detail.groups, ","),
                              ttl |-> detail.expires - now]]
\* memcache_client.set(key, (expires, groups), time=expires - time())
CacheSet(token, detail) ==
    IF memcache_client
    THEN [cache EXCEPT ![token] = [expires |-> detail.expires,
                                   groups |-> TranslateGroups(detail),
                                   ttl |-> detail.expires - now]]
    ELSE cache

\* Swauth.get_groups, the token path in local mode: groups is None when the
\* token is invalid
get_groups(token, fail) ==
    LET detail == TokenObj(token)
    IN  IF CachedGroups(token) # None
        THEN [Outcome(0) EXCEPT !.groups = CachedGroups(token)]
        ELSE IF fail = "token_get" THEN Faulted(Outcome(0))
        ELSE IF detail = Missing THEN Outcome(0)
        ELSE IF TokenExpired(detail)
        THEN [Outcome(0) EXCEPT !.tokens = ReapToken(token, fail),
                                !.faulted = (fail = "token_delete")]
        ELSE [Outcome(0) EXCEPT !.groups = TranslateGroups(detail),
                                !.ttl = detail.expires - now,
                                !.cache = CacheSet(token, detail)]

\* an endpoint that reports the stored groups as they are, '.admin' not
\* replaced by the account id
handle_validate_token_untranslated(token, fail) ==
    LET detail == TokenObj(token)
        cached == CacheGet(token)
    IN  IF ~startswith(token, reseller_prefix) THEN Outcome(400)
        ELSE IF CachedGroups(token) # None
        THEN [Outcome(204) EXCEPT !.groups = cached.groups,
                                  !.ttl = cached.expires - now]
        ELSE IF fail = "token_get" THEN Faulted(Outcome(404))
        ELSE IF detail = Missing THEN Outcome(404)
        ELSE IF TokenExpired(detail)
        THEN [Outcome(404) EXCEPT !.tokens = ReapToken(token, fail),
                                  !.faulted = (fail = "token_delete")]
        ELSE [Outcome(204) EXCEPT !.groups = join(detail.groups, ","),
                                  !.ttl = detail.expires - now]
\* Swauth.handle_validate_token: GET v2/.token/<token>
handle_validate_token(token, fail) ==
    LET detail == TokenObj(token)
        cached == CacheGet(token)
    IN  IF ~startswith(token, reseller_prefix) THEN Outcome(400)
        ELSE IF CachedGroups(token) # None
        THEN [Outcome(204) EXCEPT !.groups = cached.groups,
                                  !.ttl = cached.expires - now]
        ELSE IF fail = "token_get" THEN Faulted(Outcome(404))
        ELSE IF detail = Missing THEN Outcome(404)
        ELSE IF TokenExpired(detail)
        THEN [Outcome(404) EXCEPT !.tokens = ReapToken(token, fail),
                                  !.faulted = (fail = "token_delete")]
        ELSE [Outcome(204) EXCEPT !.groups = TranslateGroups(detail),
                                  !.ttl = detail.expires - now]


\* ------------------------------------------------- the middleware's call
\* base64.encodestring(hmac.new(password, msg, sha1).digest()).strip(): a
\* string that names the key and the message it was computed from
hmac_sha1_base64(password, msg) == "hmac(" \o password \o "," \o msg \o ")"

\* Swauth.get_groups for a request with swift3.auth_details: groups is None
\* when the request yields no principal; status 500 is an exception
get_groups_s3(r) ==
    LET i == FirstIndex(r.s3.access_key, ":")
        account == SubSeq(r.s3.access_key, 1, i - 1)
        user == SubSeq(r.s3.access_key, i + 1, Len(r.s3.access_key))
        detail == UserObj(account, user)
        container == ContainerObj(account)
        account_id == IF detail.account_id # None THEN detail.account_id
                      ELSE container.account_id
        creds == validate_creds(detail.auth)
        valid_signature == hmac_sha1_base64(creds.hash, r.s3.string_to_sign)
        groups == IF InSeq(".admin", detail.groups)
                  THEN Append(RemoveFirst(detail.groups, ".admin"), account_id)
                  ELSE detail.groups
    IN  IF ~s3_support THEN Outcome(0)
        ELSE IF r.s3.access_key = None \/ r.s3.signature = None
                \/ r.s3.string_to_sign = None
                \/ ~HasChar(r.s3.access_key, ":")
        THEN Outcome(0)
        ELSE IF r.fail = "user_get" THEN Faulted(Outcome(0))
        ELSE IF detail = Missing THEN Outcome(0)
        ELSE IF detail.account_id = None /\ r.fail = "container_head"
        THEN Faulted(Outcome(0))
        ELSE IF detail.account_id = None /\ container = Missing THEN Outcome(0)
        ELSE IF account_id = None THEN Outcome(500)
        ELSE IF ~creds.ok THEN Outcome(0)
        ELSE IF r.s3.signature # valid_signature THEN Outcome(0)
        ELSE [Outcome(0) EXCEPT !.groups = join(groups, ",")]

\* split_path(path, 1, 2, True): the version and the rest of the path; ok is
\* FALSE for a ValueError
split_path(path) ==
    LET segs == split(path, "/")
    IN  IF Len(segs) < 2 \/ segs[1] # "" \/ segs[2] = ""
        THEN [ok |-> FALSE, version |-> None, rest |-> None]
        ELSE [ok |-> TRUE, version |-> segs[2],
              rest |-> IF Len(segs) >= 3
                       THEN join(SubSeq(segs, 3, Len(segs)), "/") ELSE None]

\* a denial hook that replaces the hook it finds
DenyAlways(r) == "denied_response"
\* "'swift.authorize' not in env": a hook another middleware installed stays
DenyUnlessSet(r) ==
    IF r.swift_authorize = "" THEN "denied_response" ELSE r.swift_authorize

\* Swauth.__call__ in local mode. route tells who answers: "app" the next
\* application of the pipeline, "handle" the auth request handler, "self" the
\* middleware with the status given; swift_authorize is the hook left in env,
\* groups is REMOTE_USER (None when not set), validated tells whether
\* get_groups was called
__call__(r) ==
    LET s3 == r.s3 # NoS3
        mine == r.token # "" /\ startswith(r.token, reseller_prefix)
        g == IF s3 THEN get_groups_s3(r) ELSE get_groups(r.token, r.fail)
        through == [Outcome(0) EXCEPT !.route = "app",
                                      !.swift_authorize = r.swift_authorize]
        answer(status) == [Outcome(status) EXCEPT
                             !.route = "self",
                             !.swift_authorize = r.swift_authorize]
        sp == split_path(r.path_info)
    IN  IF r.keystone_identity THEN through
        ELSE IF r.method = "OPTIONS" THEN through
        ELSE IF allow_overrides /\ r.authorize_override THEN through
        ELSE IF r.path_info = SubSeq(auth_prefix, 1, Len(auth_prefix) - 1)
        THEN answer(301)
        ELSE IF startswith(r.path_info, auth_prefix)
        THEN [through EXCEPT !.route = "handle"]
        ELSE IF s3 /\ ~s3_support THEN answer(400)
        ELSE IF r.token # "" /\ Len(r.token) > MAX_TOKEN_LENGTH
        THEN answer(400)
        ELSE IF s3 \/ mine
        THEN IF g.status = 500
             THEN [g EXCEPT !.route = "self", !.validated = TRUE,
                            !.swift_authorize = r.swift_authorize]
             ELSE IF g.groups # None /\ g.groups # ""
             THEN [g EXCEPT !.route = "app", !.validated = TRUE,
                            !.swift_authorize = "authorize",
                            !.reseller_request =
                                Contains(g.groups, ".reseller_admin")]
             ELSE IF reseller_prefix # "" /\ mine
             THEN [g EXCEPT !.status = 401, !.route = "self",
                            !.groups = None, !.validated = TRUE,
                            !.swift_authorize = r.swift_authorize]
             ELSE [g EXCEPT !.route = "app", !.groups = None,
                            !.validated = TRUE,
                            !.swift_authorize = DenyUnlessSet(r)]
        ELSE IF reseller_prefix # ""
        THEN IF sp.ok /\ sp.rest # None /\ sp.rest # ""
                /\ startswith(sp.rest, reseller_prefix)
             THEN [through EXCEPT !.swift_authorize = "authorize"]
             ELSE [through EXCEPT !.swift_authorize = DenyUnlessSet(r)]
        ELSE IF r.swift_authorize = ""
        THEN [through EXCEPT !.swift_authorize = "authorize"]
        ELSE through

\* --------------------------------------------------- the internal token
\* self.itoken, self.itoken_expires, the number n of internal tokens minted
\* and the cache entry of the held one; none minted yet
NoItoken == [token |-> None, expires |-> 0, n |-> 0, cache |-> Missing]

\* 'not self.itoken or self.itoken_expires < time() or X-Auth-New-Token'
ItokenStale(it, env) == it.token = None \/ it.expires < now \/ env.new_token

\* a new internal token and the entry memcache_client.set writes for it
NewItoken(it) ==
    LET token == reseller_prefix \o "itk" \o uuid4(it.n + 1)
    IN  [token |-> token, expires |-> now + token_life, n |-> it.n + 1,
         cache |-> [key |-> reseller_prefix \o "/auth/" \o token,
                    expires |-> now + token_life,
                    groups |-> ".auth,.reseller_admin," \o reseller_prefix
                               \o ".auth",
                    ttl |-> token_life]]

\* a get_itoken that mints on every call
get_itoken_always(it, env) == NewItoken(it)
\* Swauth.get_itoken: the internal token, minted anew and cached when there
\* is none, it has expired or the request asks for a new token
get_itoken(it, env) == IF ItokenStale(it, env) THEN NewItoken(it) ELSE it

\* the over-guard of the handlers that call get_itoken: at most MaxItokens
\* internal tokens are ever minted
ItokensSpent(it, env) == ItokenStale(it, env) /\ it.n >= MaxItokens

\* ------------------------------------------------------------ token grant
\* int(s) for the strings the lifetime header takes: a digit, with or
\* without a sign; ok = FALSE is ValueError
int(s) ==
    LET digits == <<"0", "1", "2", "3", "4", "5">>
        IsDigit(d) == \E i \in 1..Len(digits) : digits[i] = d
        Value(d) == (CHOOSE i \in 1..Len(digits) : digits[i] = d) - 1
    IN  IF IsDigit(s) THEN [ok |-> TRUE, v |-> Value(s)]
        ELSE IF Len(s) = 2 /\ CharAt(s, 0) = "-" /\ IsDigit(CharAt(s, 1))
        THEN [ok |-> TRUE, v |-> 0 - Value(CharAt(s, 1))]
        ELSE [ok |-> FALSE, v |-> 0]

\* the lifetime of a new token: the header, capped, or token_life when the
\* header is not an integer
NewTokenLife(lifetime) ==
    IF lifetime = "" THEN Min(token_life, max_token_life)
    ELSE IF int(lifetime).ok THEN Min(int(lifetime).v, max_token_life)
    ELSE token_life

\* a grant that never finds the existing token usable
NeverLive(detail) == FALSE
\* token_detail['expires'] > time(): the existing token is still usable
TokenLive(detail) == detail.expires > now

\* a revocation that deletes the cache entry and leaves the token object
RevokeCacheOnly(o, candidate, fail) ==
    [o EXCEPT !.cache = [o.cache EXCEPT ![candidate] = Missing]]
\* the finally clause of the existing-token check: DELETE the token object
\* (its response ignored) and delete the cache entry
RevokeExisting(o, candidate, fail) ==
    [o EXCEPT !.faulted = (fail = "token_delete"),
              !.tokens = IF fail = "token_delete" THEN o.tokens
                         ELSE [o.tokens EXCEPT
                                 ![_get_concealed_token(candidate)] = Missing],
              !.cache = IF memcache_client
                        THEN [o.cache EXCEPT ![candidate] = Missing]
                        ELSE o.cache]

\* the response of a grant: the .services object is read last
GrantResponse(o, r, token, expires) ==
    IF r.fail = "services_get" THEN Faulted([o EXCEPT !.status = 500])
    ELSE IF services[r.account] = Missing THEN [o EXCEPT !.status = 500]
    ELSE [o EXCEPT !.status = 200, !.token = token, !.ttl = expires - now]

\* 'Create a new token if one didn't exist': o holds what the existing-token
\* check left
MintToken(o, r, user_detail) ==
    LET container == ContainerObj(r.account)
        token == TokenName(minted + 1)
        expires == now + NewTokenLife(r.lifetime)
        detail == [account |-> r.account, user |-> r.user,
                   account_id |-> container.account_id,
                   groups |-> user_detail.groups, expires |-> expires]
        put == [o EXCEPT !.minted = minted + 1,
                         !.tokens = [o.tokens EXCEPT
                                       ![_get_concealed_token(token)] = detail]]
        post == [put EXCEPT !.users =
                    [users EXCEPT ![<<r.account, r.user>>] =
                        [auth |-> user_detail.auth,
                         groups |-> user_detail.groups,
                         auth_token |-> token, account_id |-> None]]]
    IN  IF r.fail = "container_head" THEN Faulted([o EXCEPT !.status = 500])
        ELSE IF container = Missing \/ container.account_id = None
        THEN [o EXCEPT !.status = 500]
        ELSE IF minted >= MaxTokens THEN [o EXCEPT !.over = TRUE]
        ELSE IF r.fail = "token_put"
        THEN Faulted([o EXCEPT !.status = 500, !.minted = minted + 1])
        ELSE IF r.fail = "user_post" THEN Faulted([put EXCEPT !.status = 500])
        ELSE GrantResponse(post, r, token, expires)

\* Swauth.handle_get_token: the super admin is handed the internal token, a
\* stored user its own
handle_get_token(r) ==
    LET user_detail == UserObj(r.account, r.user)
        candidate == user_detail.auth_token
        token_detail == TokenObj(candidate)
        o == Outcome(500)
        it == get_itoken(itoken, r)
    IN  IF r.account = "" \/ r.user = "" \/ r.key = "" THEN Outcome(401)
        ELSE IF r.user = ".super_admin" /\ super_admin_key # ""
                /\ r.key = super_admin_key
        THEN IF ItokensSpent(itoken, r) THEN [o EXCEPT !.over = TRUE]
             ELSE [Outcome(200) EXCEPT !.token = it.token, !.itoken = it]
        ELSE IF r.fail = "user_get" THEN Faulted(Outcome(500))
        ELSE IF user_detail = Missing THEN Outcome(401)
        ELSE IF ~credentials_match(user_detail, r.key) THEN Outcome(401)
        ELSE IF candidate = None THEN MintToken(o, r, user_detail)
        ELSE IF r.new_token
        THEN MintToken(RevokeExisting(o, candidate, r.fail), r, user_detail)
        ELSE IF r.fail = "token_get" THEN Faulted(Outcome(500))
        ELSE IF token_detail = Missing THEN MintToken(o, r, user_detail)
        ELSE IF TokenLive(token_detail)
        THEN GrantResponse(o, r, candidate, token_detail.expires)
        ELSE MintToken(RevokeExisting(o, candidate, r.fail), r, user_detail)


\* ------------------------------------------------------------ user admin
\* a name the v2 handlers refuse: empty or beginning with '.'
BadName(name) == name = "" \/ startswith(name, ".")

\* groups in which the reseller flag does not bring .admin with it
NewUserGroupsAsFlagged(r) ==
    <<r.account \o ":" \o r.user, r.account>>
    \o (IF r.x_auth_user_admin THEN <<".admin">> ELSE <<>>)
    \o (IF r.x_auth_user_reseller_admin THEN <<".reseller_admin">> ELSE <<>>)
\* the groups of a user record written by PUT v2/<account>/<user>
NewUserGroups(r) ==
    <<r.account \o ":" \o r.user, r.account>>
    \o (IF r.x_auth_user_admin \/ r.x_auth_user_reseller_admin
        THEN <<".admin">> ELSE <<>>)
    \o (IF r.x_auth_user_reseller_admin THEN <<".reseller_admin">> ELSE <<>>)

\* a privilege check that lets every caller through
PutUserGateOpen(r) == [ok |-> TRUE, cv |-> FALSE]
\* the privilege check of handle_put_user: allowed, and credentials_valid
PutUserGate(r) ==
    LET user_arg == r.account \o ":" \o r.user
    IN  IF r.x_auth_user_reseller_admin
        THEN [ok |-> is_super_admin(r) \/ is_user_changing_own_key(r, user_arg),
              cv |-> FALSE]
        ELSE [ok |-> is_account_admin(r, r.account).ok
                     \/ is_user_changing_own_key(r, user_arg),
              cv |-> is_account_admin(r, r.account).cv]

\* Swauth.handle_put_user: PUT v2/<account>/<user>
handle_put_user(r) ==
    LET gate == PutUserGate(r)
        container == ContainerObj(r.account)
        id == <<r.account, r.user>>
        record == [auth |-> IF r.key_hash # "" THEN r.key_hash
                            ELSE encode(r.key, r.urandom),
                   groups |-> NewUserGroups(r), auth_token |-> None,
                   account_id |-> container.account_id]
    IN  IF BadName(r.account) \/ BadName(r.user)
           \/ (r.key = "" /\ r.key_hash = "")
        THEN Outcome(400)
        ELSE IF r.key_hash # "" /\ ~validate_creds(r.key_hash).ok
        THEN Outcome(400)
        ELSE IF r.fail = "user_get" /\ GateReadsStore(r)
        THEN Faulted(Outcome(500))
        ELSE IF ~gate.ok THEN Outcome(denied_response("", gate.cv))
        ELSE IF r.fail = "container_head" THEN Faulted(Outcome(500))
        ELSE IF container = Missing \/ container.account_id = None
        THEN Outcome(500)
        ELSE IF r.fail = "user_put" THEN Faulted(Outcome(500))
        ELSE IF id \notin UserIds THEN Outcome(404)
        ELSE [Outcome(201) EXCEPT !.users = [users EXCEPT ![id] = record]]

\* a DELETE that never refuses because of the target's groups
ResellerTargetRefusedNever(r, target) == FALSE
\* 'elif is_reseller_admin and not self.is_super_admin(req)': the target is a
\* .reseller_admin and the caller is not the super admin
ResellerTargetRefused(r, target) == target.ok /\ ~is_super_admin(r)

\* Swauth.handle_delete_user: DELETE v2/<account>/<user>
handle_delete_user(r) ==
    LET target == is_user_reseller_admin(r.account, r.user)
        gate == is_account_admin(r, r.account)
        id == <<r.account, r.user>>
        candidate == UserObj(r.account, r.user).auth_token
        tokens1 == IF candidate = None THEN tokens
                   ELSE [tokens EXCEPT
                           ![_get_concealed_token(candidate)] = Missing]
    IN  IF BadName(r.account) \/ BadName(r.user) THEN Outcome(400)
        ELSE IF r.fail = "user_get" THEN Faulted(Outcome(500))
        ELSE IF ~target.ok /\ ~target.cv THEN Outcome(404)
        ELSE IF ResellerTargetRefused(r, target) THEN Outcome(403)
        ELSE IF ~gate.ok THEN Outcome(denied_response("", gate.cv))
        ELSE IF r.fail = "user_head" THEN Faulted(Outcome(500))
        ELSE IF candidate # None /\ r.fail = "token_delete"
        THEN Faulted(Outcome(500))
        ELSE IF r.fail = "user_delete"
        THEN Faulted([Outcome(500) EXCEPT !.tokens = tokens1])
        ELSE [Outcome(204) EXCEPT !.tokens = tokens1,
                                  !.users = [users EXCEPT ![id] = Missing]]

\* ---------------------------------------------------------- account admin
\* a .services object whose default names no endpoint of the map
ServicesWithoutEndpoint(account_id) == [storage |-> ("default" :> dsc_name)]
\* the .services object PUT v2/<account> writes
NewServices(account_id) ==
    [storage |-> (dsc_name :> (dsc_url \o "/" \o account_id))
                 @@ ("default" :> dsc_name)]

\* a container created with the account id already on it
NewContainerMarked(account_id) == [account_id |-> account_id]
\* the container PUT v2/<account> creates: no metadata yet
NewContainer(account_id) == [account_id |-> None]

\* an existence check that takes every existing container for an account
AlreadyCreatedIfPresent(container) == container # Missing
\* 'x-container-meta-account-id' in resp.headers of a 2xx HEAD
AlreadyCreated(container) ==
    container # Missing /\ container.account_id # None

\* Swauth.handle_put_account: PUT v2/<account>, X-Account-Suffix in r.suffix
handle_put_account(r) ==
    LET gate == is_reseller_admin(r)
        fresh == r.suffix = ""
        account_suffix == IF fresh THEN uuid4(minted + 1) ELSE r.suffix
        account_id == reseller_prefix \o account_suffix
        path == urlparse(dsc_url2).path \o "/" \o account_id
        container == ContainerObj(r.account)
        \* the uuid4 draw and the internal token of the cluster request
        o0 == [Outcome(500) EXCEPT
                 !.minted = IF fresh THEN minted + 1 ELSE minted,
                 !.itoken = get_itoken(itoken, r)]
        \* the storage account is created on the cluster
        o1 == [o0 EXCEPT !.clusters[urlparse(dsc_url2).netloc] =
                            @ \cup {StorageAccount(path)}]
        \* the account's container is created when the HEAD found none
        o2 == IF container = Missing
              THEN [o1 EXCEPT !.containers[r.account] =
                                 NewContainer(account_id)]
              ELSE o1
        o3 == [o2 EXCEPT !.mappings[account_id] = [body |-> r.account]]
        o4 == [o3 EXCEPT !.services[r.account] = NewServices(account_id)]
        o5 == [o4 EXCEPT !.containers[r.account] = [account_id |-> account_id],
                         !.status = 201]
    IN  IF r.fail = "user_get" /\ GateReadsStore(r) THEN Faulted(Outcome(500))
        ELSE IF ~gate.ok THEN Outcome(denied_response("", gate.cv))
        ELSE IF BadName(r.account) THEN Outcome(400)
        ELSE IF (fresh /\ minted >= MaxTokens) \/ ItokensSpent(itoken, r)
        THEN [Outcome(500) EXCEPT !.over = TRUE]
        ELSE IF r.fail = "cluster_put" THEN Faulted(o0)
        ELSE IF r.fail = "container_head" THEN Faulted(o1)
        ELSE IF container = Missing /\ r.fail = "container_put" THEN Faulted(o1)
        ELSE IF AlreadyCreated(container) THEN [o1 EXCEPT !.status = 202]
        ELSE IF r.fail = "mapping_put" THEN Faulted(o2)
        ELSE IF r.fail = "services_put" THEN Faulted(o3)
        ELSE IF r.fail = "container_post" THEN Faulted(o4)
        ELSE o5

\* a scan that takes the account for empty without reading the listing
ScanNothing(names, marker) == "clear"
\* the listing loop of handle_delete_account over the pages of a listing:
\* "conflict" at the first name that does not begin with '.', "clear" when a
\* page comes back empty
RECURSIVE ScanForUsers(_, _)
ScanForUsers(names, marker) ==
    LET sublisting == ListPage(names, marker)
    IN  IF sublisting = <<>> THEN "clear"
        ELSE IF \E i \in 1..Len(sublisting) : CharAt(sublisting[i], 0) # "."
        THEN "conflict"
        ELSE ScanForUsers(names, sublisting[Len(sublisting)])

\* a 409 that is always reported as a conflict
ConflictStatusAlways409(deleted_any) == 409
\* a 409 from a cluster: an error once a cluster delete went through
ConflictStatus(deleted_any) == IF deleted_any THEN 500 ELSE 409

\* a loop that takes a 404 from a cluster (the storage account is already
\* gone) for an error
RECURSIVE DeleteOnClustersStrict(_, _, _, _, _)
DeleteOnClustersStrict(names, storage, r, cl, deleted_any) ==
    IF names = <<>> THEN [status |-> 0, clusters |-> cl, faulted |-> FALSE]
    ELSE LET name == Head(names)
             parsed == urlparse(storage[name])
             id == StorageAccount(parsed.path)
         IN  IF name = "default" \/ name \notin DOMAIN storage
             THEN DeleteOnClustersStrict(Tail(names), storage, r, cl,
                                         deleted_any)
             ELSE IF parsed.netloc \notin DOMAIN cl \/ id \notin cl[parsed.netloc]
             THEN [status |-> 500, clusters |-> cl, faulted |-> TRUE]
             ELSE DeleteOnClustersStrict(
                      Tail(names), storage, r,
                      [cl EXCEPT ![parsed.netloc] = @ \ {id}], TRUE)

\* the loop of handle_delete_account over services['storage']: the endpoints
\* are contacted in the order the dict yields them (r.order); the cluster
\* named r.fail_name answers 409 (fail = "cluster_409") or 5xx
\* ("cluster_500"). status 0 means the loop ended without a return or raise
RECURSIVE DeleteOnClusters(_, _, _, _, _)
DeleteOnClusters(names, storage, r, cl, deleted_any) ==
    IF names = <<>> THEN [status |-> 0, clusters |-> cl, faulted |-> FALSE]
    ELSE LET name == Head(names)
             parsed == urlparse(storage[name])
             id == StorageAccount(parsed.path)
         IN  IF name = "default" \/ name \notin DOMAIN storage
             THEN DeleteOnClusters(Tail(names), storage, r, cl, deleted_any)
             ELSE IF r.fail = "cluster_409" /\ r.fail_name = name
             THEN [status |-> ConflictStatus(deleted_any),
                   clusters |-> cl, faulted |-> TRUE]
             ELSE IF r.fail = "cluster_500" /\ r.fail_name = name
             THEN [status |-> 500, clusters |-> cl, faulted |-> TRUE]
             ELSE DeleteOnClusters(
                      Tail(names), storage, r,
                      IF parsed.netloc \in DOMAIN cl
                      THEN [cl EXCEPT ![parsed.netloc] = @ \ {id}] ELSE cl,
                      TRUE)

\* DELETE of the container AUTH_.auth/<account>: the store refuses (409) to
\* delete a container that holds objects
ContainerDeleteStatus(account, us, svs) ==
    IF ContainerListing(account, us, svs) # <<>> THEN 409 ELSE 204

\* Swauth.handle_delete_account: DELETE v2/<account>
handle_delete_account(r) ==
    LET gate == is_reseller_admin(r)
        container == ContainerObj(r.account)
        names == ContainerListing(r.account, users, services)
        account_id == container.account_id
        svc == services[r.account]
        o0 == Outcome(500)
        swept == DeleteOnClusters(r.order, svc.storage, r, clusters, FALSE)
        \* after the loop over the clusters
        o1 == IF svc = Missing THEN o0
              ELSE [o0 EXCEPT !.clusters = swept.clusters,
                              !.itoken = get_itoken(itoken, r)]
        \* after the DELETE of the .services object
        o2 == IF svc = Missing THEN o1
              ELSE [o1 EXCEPT !.services[r.account] = Missing]
        o3 == [o2 EXCEPT !.mappings[account_id] = Missing]
        o4 == [o3 EXCEPT !.containers[r.account] = Missing, !.status = 204]
    IN  IF r.fail = "user_get" /\ GateReadsStore(r) THEN Faulted(Outcome(500))
        ELSE IF ~gate.ok THEN Outcome(denied_response("", gate.cv))
        ELSE IF BadName(r.account) THEN Outcome(400)
        ELSE IF r.fail = "listing" THEN Faulted(o0)
        ELSE IF container = Missing THEN Outcome(404)
        ELSE IF account_id = None THEN o0
        ELSE IF ScanForUsers(names, "") = "conflict" THEN Outcome(409)
        ELSE IF r.fail = "services_get" THEN Faulted(o0)
        ELSE IF svc # Missing /\ ItokensSpent(itoken, r)
        THEN [o0 EXCEPT !.over = TRUE]
        ELSE IF svc # Missing /\ swept.status # 0
        THEN [o1 EXCEPT !.status = swept.status, !.faulted = TRUE]
        ELSE IF svc # Missing /\ r.fail = "services_delete" THEN Faulted(o1)
        ELSE IF r.fail = "mapping_delete" THEN Faulted(o2)
        ELSE IF r.fail = "container_delete" THEN Faulted(o3)
        ELSE IF ContainerDeleteStatus(r.account, o3.users, o3.services) = 409
        THEN o3
        ELSE o4

\* services[new_service].update(value), or services[new_service] = value
MergeServices(svc, new_services) ==
    [s \in DOMAIN svc \cup DOMAIN new_services |->
        IF s \notin DOMAIN new_services THEN svc[s]
        ELSE IF s \notin DOMAIN svc THEN new_services[s]
        ELSE [e \in DOMAIN svc[s] \cup DOMAIN new_services[s] |->
                IF e \in DOMAIN new_services[s] THEN new_services[s][e]
                ELSE svc[s][e]]]

\* Swauth.handle_set_services: POST v2/<account>/.services; r.body is the
\* parsed JSON body, NoBody when it does not parse
handle_set_services(r) ==
    LET gate == is_reseller_admin(r)
        svc == services[r.account]
        merged == MergeServices(svc, r.body)
    IN  IF r.fail = "user_get" /\ GateReadsStore(r) THEN Faulted(Outcome(500))
        ELSE IF ~gate.ok THEN Outcome(denied_response("", gate.cv))
        ELSE IF BadName(r.account) THEN Outcome(400)
        ELSE IF r.body = NoBody THEN Outcome(400)
        ELSE IF r.fail = "services_get" THEN Faulted(Outcome(500))
        ELSE IF svc = Missing THEN Outcome(404)
        ELSE IF r.fail = "services_put" THEN Faulted(Outcome(500))
        ELSE [Outcome(200) EXCEPT !.services[r.account] = merged,
                                  !.body = merged]

\* Swauth.handle_prep: POST v2/.prep. The auth account, its .account_id
\* container and its token containers exist already, and a PUT of an
\* existing container changes nothing
handle_prep(r) ==
    IF ~is_super_admin(r) THEN Outcome(denied_response("", FALSE))
    ELSE IF r.fail = "prep_put" THEN Faulted(Outcome(500))
    ELSE Outcome(204)

\* the listing loops of the GET handlers: the names that do not begin with
\* '.', page by page, until a page comes back empty
RECURSIVE CollectNames(_, _)
CollectNames(names, marker) ==
    LET sublisting == ListPage(names, marker)
    IN  IF sublisting = <<>> THEN <<>>
        ELSE SelectSeq(sublisting, LAMBDA n : CharAt(n, 0) # ".")
             \o CollectNames(names, sublisting[Len(sublisting)])

\* Swauth.handle_get_reseller: GET v2
handle_get_reseller(r) ==
    LET gate == is_reseller_admin(r)
    IN  IF r.fail = "user_get" /\ GateReadsStore(r) THEN Faulted(Outcome(500))
        ELSE IF ~gate.ok THEN Outcome(denied_response("", gate.cv))
        ELSE IF r.fail = "listing" THEN Faulted(Outcome(500))
        ELSE [Outcome(200) EXCEPT !.body =
                 [accounts |-> CollectNames(AuthAccountListing(containers), "")]]

\* Swauth.handle_get_account: GET v2/<account>
handle_get_account(r) ==
    LET gate == is_account_admin(r, r.account)
        container == ContainerObj(r.account)
        names == ContainerListing(r.account, users, services)
    IN  IF BadName(r.account) THEN Outcome(400)
        ELSE IF r.fail = "user_get" /\ GateReadsStore(r)
        THEN Faulted(Outcome(500))
        ELSE IF ~gate.ok THEN Outcome(denied_response("", gate.cv))
        ELSE IF r.fail = "services_get" THEN Faulted(Outcome(500))
        ELSE IF services[r.account] = Missing THEN Outcome(404)
        ELSE IF r.fail = "listing" THEN Faulted(Outcome(500))
        ELSE IF container = Missing THEN Outcome(404)
        ELSE IF container.account_id = None THEN Outcome(500)
        ELSE [Outcome(200) EXCEPT !.body =
                 [account_id |-> container.account_id,
                  services |-> services[r.account],
                  users |-> CollectNames(names, "")]]

\* sorted(groups) for the group names of the stored users
SortedGroups ==
    <<".admin", ".reseller_admin", "act", "act:adm", "act:usr", "oth",
      "oth:adm", "oth:usr">>

\* the '.groups' listing of handle_get_user: the groups of every user of the
\* account, sorted
AccountGroups(account) ==
    LET names == CollectNames(ContainerListing(account, users, services), "")
    IN  SelectSeq(SortedGroups,
                  LAMBDA g : \E i \in 1..Len(names) :
                                 InSeq(g, UserObj(account, names[i]).groups))

\* a check that refuses nobody
GetUserRefusedNever(r, display_groups, gate) == [refused |-> FALSE, cv |-> FALSE]
\* the check of handle_get_user against the target's groups: refused, and
\* req.credentials_valid as the calls made leave it
GetUserRefused(r, display_groups, gate) ==
    LET admin == InSeq(".admin", display_groups)
        cv == IF admin THEN is_reseller_admin(r).cv ELSE gate.cv
    IN  [refused |-> \/ admin /\ ~is_reseller_admin(r).ok
                     \/ InSeq(".reseller_admin", display_groups)
                        /\ ~is_super_admin(r),
         cv |-> cv]

\* Swauth.handle_get_user: GET v2/<account>/<user>
handle_get_user(r) ==
    LET gate == is_account_admin(r, r.account)
        body == UserObj(r.account, r.user)
        check == GetUserRefused(r, body.groups, gate)
    IN  IF BadName(r.account) \/ r.user = ""
           \/ (startswith(r.user, ".") /\ r.user # ".groups")
        THEN Outcome(400)
        ELSE IF r.fail = "user_get" /\ GateReadsStore(r)
        THEN Faulted(Outcome(500))
        ELSE IF ~gate.ok THEN Outcome(denied_response("", gate.cv))
        ELSE IF r.fail \in {"listing", "target_get"} THEN Faulted(Outcome(500))
        ELSE IF r.user = ".groups"
        THEN IF ContainerObj(r.account) = Missing THEN Outcome(404)
             ELSE [Outcome(200) EXCEPT !.body =
                      [groups |-> AccountGroups(r.account)]]
        ELSE IF body = Missing THEN Outcome(404)
        ELSE IF check.refused THEN Outcome(denied_response("", check.cv))
        ELSE [Outcome(200) EXCEPT !.body =
                 [auth |-> body.auth, groups |-> body.groups]]

\* -------------------------------------------------------------- actions
Respond(o) == [status |-> o.status, token |-> o.token, groups |-> o.groups,
               ttl |-> o.ttl, body |-> o.body, route |-> o.route,
               swift_authorize |-> o.swift_authorize,
               validated |-> o.validated,
               reseller_request |-> o.reseller_request,
               faulted |-> o.faulted]

\* a handler's outcome becomes the next state and the request is recorded;
\* resp.faulted tells whether a store request of the handler was answered 5xx
Commit(r, o) ==
    /\ ~o.over
    /\ users' = o.users
    /\ tokens' = o.tokens
    /\ cache' = o.cache
    /\ minted' = o.minted
    /\ containers' = o.containers
    /\ services' = o.services
    /\ mappings' = o.mappings
    /\ clusters' = o.clusters
    /\ itoken' = o.itoken
    /\ req' = r
    /\ resp' = Respond(o)
    /\ UNCHANGED <<conf, now, areq, aresp, race>>

\* the token and user requests are recorded without the fault they met
Apply(r, o) == Commit([r EXCEPT !.fail = "none"], o)

\* GET <auth_prefix>v1.0 with X-Auth-User and X-Auth-Key
GetToken(account, user, key, new_token, lifetime, fail) ==
    LET r == [BlankReq EXCEPT !.op = "get_token", !.account = account,
                              !.user = user, !.key = key,
                              !.new_token = new_token, !.lifetime = lifetime,
                              !.fail = fail]
        o == handle_get_token(r)
        candidate == IF UserObj(account, user) = Missing THEN None
                     ELSE UserObj(account, user).auth_token
    IN  /\ Apply(r, o)
        /\ revoked' = IF o.status = 200 /\ new_token /\ candidate # None
                         /\ fail # "token_delete"
                      THEN revoked \cup {candidate} ELSE revoked

\* a storage request carrying X-Auth-Token: the middleware's get_groups
GetGroups(token, fail) ==
    /\ Apply([BlankReq EXCEPT !.op = "get_groups", !.token = token,
                              !.fail = fail],
             get_groups(token, fail))
    /\ UNCHANGED revoked

\* GET v2/.token/<token>
ValidateToken(token, fail) ==
    /\ Apply([BlankReq EXCEPT !.op = "validate_token", !.token = token,
                              !.fail = fail],
             handle_validate_token(token, fail))
    /\ UNCHANGED revoked

\* PUT v2/<account>/<user>
PutUser(account, user, key, key_hash, admin, reseller_admin, admin_user, admin_key, fail) ==
    LET r == [BlankReq EXCEPT !.op = "put_user", !.account = account,
                              !.user = user, !.key = key,
                              !.key_hash = key_hash,
                              !.x_auth_user_admin = admin,
                              !.x_auth_user_reseller_admin = reseller_admin,
                              !.admin_user = admin_user,
                              !.admin_key = admin_key, !.fail = fail]
    IN  Apply(r, handle_put_user(r)) /\ UNCHANGED revoked

\* DELETE v2/<account>/<user>
DeleteUser(account, user, admin_user, admin_key, fail) ==
    LET r == [BlankReq EXCEPT !.op = "delete_user", !.account = account,
                              !.user = user, !.admin_user = admin_user,
                              !.admin_key = admin_key, !.fail = fail]
    IN  Apply(r, handle_delete_user(r)) /\ UNCHANGED revoked

\* a request to the proxy that reaches the middleware's __call__
Call(method, path_info, token, s3, swift_authorize, keystone_identity, authorize_override, fail) ==
    LET r == [BlankReq EXCEPT !.op = "call", !.method = method,
                              !.path_info = path_info, !.token = token,
                              !.s3 = s3, !.swift_authorize = swift_authorize,
                              !.keystone_identity = keystone_identity,
                              !.authorize_override = authorize_override,
                              !.fail = fail]
    IN  Apply(r, __call__(r)) /\ UNCHANGED revoked

\* a GET of a storage account with a token: __call__ validates the token and
\* sets REMOTE_USER, and the proxy calls the authorize hook __call__ installed
StorageRequest(token, account) ==
    LET r == [BlankReq EXCEPT !.op = "call",
                              !.path_info = "/v1/" \o account,
                              !.token = token]
        o == __call__(r)
        a == [path_ok |-> TRUE, account |-> account, container |-> "",
              obj |-> "", method |-> "GET",
              remote_user |-> IF o.groups = None THEN "" ELSE o.groups,
              acl |-> None, referer |-> "", swift_sync_key |-> "",
              x_container_sync_key |-> "", x_timestamp |-> FALSE,
              remote_addr |-> "10.1.1.1", remote_client |-> "10.1.1.1"]
    IN  /\ o.route = "app"
        /\ o.swift_authorize = "authorize"
        /\ users' = o.users
        /\ tokens' = o.tokens
        /\ cache' = o.cache
        /\ req' = r
        /\ resp' = Respond(o)
        /\ areq' = a
        /\ aresp' = authorize(a)
        /\ UNCHANGED <<conf, now, containers, services, mappings, clusters,
                       itoken, minted, revoked, race>>

\* get_itoken, one cache request at a time, for two requests handled
\* concurrently by one process. race.calls[c] is the position of call c:
\* "idle" not running, "set" suspended in memcache_client.set with the entry
\* it is writing, "returned" with the token it returned in ret, "raised";
\* race.written holds the cache keys of the internal tokens written so far
MintCalls == {1, 2}
IdleCall == [pc |-> "idle", entry |-> Missing, ret |-> None]

\* get_itoken up to its first request to the cache: a token that is not stale
\* is returned; otherwise self.itoken and self.itoken_expires are assigned,
\* and then either cache_from_env gives no client and the call raises, or the
\* call is suspended in memcache_client.set
ItokenStart(c, cache_ok, new_token) ==
    LET env == [BlankReq EXCEPT !.new_token = new_token]
        minted_it == NewItoken(itoken)
        assigned == [minted_it EXCEPT !.cache = itoken.cache]
    IN  /\ race # Idle
        /\ race.calls[c].pc # "set"
        /\ ~ItokensSpent(itoken, env)
        /\ IF ~ItokenStale(itoken, env)
           THEN /\ race' = [race EXCEPT !.calls[c] =
                              [pc |-> "returned", entry |-> Missing,
                               ret |-> itoken.token]]
                /\ UNCHANGED itoken
           ELSE /\ itoken' = assigned
                /\ race' = [race EXCEPT !.calls[c] =
                              IF cache_ok
                              THEN [pc |-> "set", entry |-> minted_it.cache,
                                    ret |-> None]
                              ELSE [pc |-> "raised", entry |-> Missing,
                                    ret |-> None]]
        /\ UNCHANGED <<conf, now, users, tokens, cache, containers, services,
                       mappings, clusters, minted, revoked, req, resp, areq,
                       aresp>>

\* memcache_client.set completes and the call returns self.itoken
ItokenSet(c) ==
    /\ race # Idle
    /\ race.calls[c].pc = "set"
    /\ itoken' = [itoken EXCEPT !.cache = race.calls[c].entry]
    /\ race' = [race EXCEPT !.written = @ \cup {race.calls[c].entry.key},
                            !.calls[c] = [pc |-> "returned",
                                          entry |-> Missing,
                                          ret |-> itoken.token]]
    /\ UNCHANGED <<conf, now, users, tokens, cache, containers, services,
                   mappings, clusters, minted, revoked, req, resp, areq, aresp>>

\* the credentials of the super admin
SuperAdmin == [admin_user |-> ".super_admin", admin_key |-> super_admin_key]

\* an admin request names the caller in X-Auth-Admin-User / X-Auth-Admin-Key
AdminReq(op, c) ==
    [BlankReq EXCEPT !.op = op, !.admin_user = c.admin_user,
                     !.admin_key = c.admin_key]

\* PUT v2/<account> with X-Account-Suffix
PutAccount(account, suffix, c, fail) ==
    LET r == [AdminReq("put_account", c) EXCEPT !.account = account,
                                                !.suffix = suffix,
                                                !.fail = fail]
    IN  Commit(r, handle_put_account(r)) /\ UNCHANGED revoked

\* DELETE v2/<account>; order is the order in which the endpoints of the
\* .services object are contacted
DeleteAccount(account, c, order, fail, fail_name) ==
    LET r == [AdminReq("delete_account", c) EXCEPT !.account = account,
                                                   !.order = order,
                                                   !.fail = fail,
                                                   !.fail_name = fail_name]
    IN  Commit(r, handle_delete_account(r)) /\ UNCHANGED revoked

\* POST v2/<account>/.services
SetServices(account, body, c, fail) ==
    LET r == [AdminReq("set_services", c) EXCEPT !.account = account,
                                                 !.body = body, !.fail = fail]
    IN  Commit(r, handle_set_services(r)) /\ UNCHANGED revoked

\* POST v2/.prep
Prep(c, fail) ==
    LET r == [AdminReq("prep", c) EXCEPT !.account = ".prep", !.fail = fail]
    IN  Commit(r, handle_prep(r)) /\ UNCHANGED revoked

\* GET v2
GetReseller(c, fail) ==
    LET r == [AdminReq("get_reseller", c) EXCEPT !.fail = fail]
    IN  Commit(r, handle_get_reseller(r)) /\ UNCHANGED revoked

\* GET v2/<account>
GetAccount(account, c, fail) ==
    LET r == [AdminReq("get_account", c) EXCEPT !.account = account,
                                                !.fail = fail]
    IN  Commit(r, handle_get_account(r)) /\ UNCHANGED revoked

\* GET v2/<account>/<user>
GetUser(account, user, c, fail) ==
    LET r == [AdminReq("get_user", c) EXCEPT !.account = account,
                                             !.user = user, !.fail = fail]
    IN  Commit(r, handle_get_user(r)) /\ UNCHANGED revoked

\* --------------------------------------------- requests that interleave
\* DELETE v2/<account> and PUT v2/<account>/<user>, both by the super admin,
\* handled by two workers at once: every request to the backing store is a
\* step of its own, and the steps of the two handlers interleave freely.
\* race.del and race.put hold each handler's position and local variables.
RaceStart(del_account, put_account, put_user) ==
    [del |-> [pc |-> "start", account |-> del_account, marker |-> "",
              account_id |-> None, names |-> <<>>, status |-> 0],
     put |-> [pc |-> "start", account |-> put_account, user |-> put_user,
              account_id |-> None, status |-> 0]]

DelDone(status) == [race.del EXCEPT !.pc = "done", !.status = status]
PutDone(status) == [race.put EXCEPT !.pc = "done", !.status = status]

\* handle_delete_account, one store request at a time
RaceDelete ==
    LET d == race.del
        a == d.account
        sublisting == ListPage(ContainerListing(a, users, services), d.marker)
        storage == services[a].storage
        url == storage[Head(d.names)]
        parsed == urlparse(url)
    IN  /\ race # Idle
        /\ d.pc # "done"
        /\ CASE d.pc = "start" ->
                  \* the gate and the check of the account's name
                  /\ race' = [race EXCEPT !.del =
                                 IF BadName(a) THEN DelDone(400)
                                 ELSE [d EXCEPT !.pc = "list"]]
                  /\ UNCHANGED <<containers, services, mappings, clusters,
                                 itoken>>
             [] d.pc = "list" ->
                  \* GET of one page of the listing
                  /\ race' = [race EXCEPT !.del =
                        IF containers[a] = Missing THEN DelDone(404)
                        ELSE IF containers[a].account_id = None
                        THEN DelDone(500)
                        ELSE IF sublisting = <<>>
                        THEN [d EXCEPT !.pc = "services_get",
                                       !.account_id = containers[a].account_id]
                        ELSE IF \E i \in 1..Len(sublisting) :
                                   CharAt(sublisting[i], 0) # "."
                        THEN DelDone(409)
                        ELSE [d EXCEPT !.marker = sublisting[Len(sublisting)],
                                       !.account_id = containers[a].account_id]]
                  /\ UNCHANGED <<containers, services, mappings, clusters,
                                 itoken>>
             [] d.pc = "services_get" ->
                  \* GET of the .services object
                  /\ race' = [race EXCEPT !.del =
                        IF services[a] = Missing
                        THEN [d EXCEPT !.pc = "mapping_delete"]
                        ELSE [d EXCEPT !.pc = "cluster",
                                       !.names = SelectSeq(
                                           <<dsc_name, "other">>,
                                           LAMBDA n : n \in DOMAIN storage)]]
                  /\ UNCHANGED <<containers, services, mappings, clusters,
                                 itoken>>
             [] d.pc = "cluster" /\ d.names # <<>> ->
                  \* DELETE of the storage account on one cluster
                  /\ clusters' = [clusters EXCEPT ![parsed.netloc] =
                                     @ \ {StorageAccount(parsed.path)}]
                  /\ itoken' = get_itoken(itoken, BlankReq)
                  /\ race' = [race EXCEPT !.del.names = Tail(d.names)]
                  /\ UNCHANGED <<containers, services, mappings>>
             [] d.pc = "cluster" /\ d.names = <<>> ->
                  \* DELETE of the .services object
                  /\ services' = [services EXCEPT ![a] = Missing]
                  /\ race' = [race EXCEPT !.del.pc = "mapping_delete"]
                  /\ UNCHANGED <<containers, mappings, clusters, itoken>>
             [] d.pc = "mapping_delete" ->
                  /\ mappings' = [mappings EXCEPT ![d.account_id] = Missing]
                  /\ race' = [race EXCEPT !.del.pc = "container_delete"]
                  /\ UNCHANGED <<containers, services, clusters, itoken>>
             [] d.pc = "container_delete" ->
                  /\ IF ContainerDeleteStatus(a, users, services) = 409
                     THEN /\ race' = [race EXCEPT !.del = DelDone(500)]
                          /\ UNCHANGED containers
                     ELSE /\ race' = [race EXCEPT !.del = DelDone(204)]
                          /\ containers' = [containers EXCEPT ![a] = Missing]
                  /\ UNCHANGED <<services, mappings, clusters, itoken>>
        /\ UNCHANGED <<conf, now, users, tokens, cache, minted, revoked, req,
                       resp, areq, aresp>>

\* handle_put_user, one store request at a time
RacePut ==
    LET p == race.put
        a == p.account
        r == [AdminReq("put_user", SuperAdmin) EXCEPT !.account = a,
                                                      !.user = p.user,
                                                      !.key = "key"]
        record == [auth |-> encode(r.key, r.urandom),
                   groups |-> NewUserGroups(r),
                   auth_token |-> None, account_id |-> p.account_id]
    IN  /\ race # Idle
        /\ p.pc # "done"
        /\ CASE p.pc = "start" ->
                  \* the checks of the request and the privilege check
                  /\ race' = [race EXCEPT !.put =
                        IF BadName(a) \/ BadName(p.user) THEN PutDone(400)
                        ELSE IF ~PutUserGate(r).ok
                        THEN PutDone(denied_response("", PutUserGate(r).cv))
                        ELSE [p EXCEPT !.pc = "container_head"]]
                  /\ UNCHANGED users
             [] p.pc = "container_head" ->
                  \* HEAD of the account's container for its account id
                  /\ race' = [race EXCEPT !.put =
                        IF containers[a] = Missing
                           \/ containers[a].account_id = None
                        THEN PutDone(500)
                        ELSE [p EXCEPT !.pc = "user_put",
                                       !.account_id = containers[a].account_id]]
                  /\ UNCHANGED users
             [] p.pc = "user_put" ->
                  \* PUT of the user object: 404 when the container is gone
                  /\ IF containers[a] = Missing
                     THEN /\ race' = [race EXCEPT !.put = PutDone(404)]
                          /\ UNCHANGED users
                     ELSE /\ race' = [race EXCEPT !.put = PutDone(201)]
                          /\ users' = [users EXCEPT ![<<a, p.user>>] = record]
        /\ UNCHANGED <<conf, now, tokens, cache, containers, services,
                       mappings, clusters, itoken, minted, revoked, req, resp,
                       areq, aresp>>

\* PUT v2/act/<user> sent by act:<user> itself with
\* X-Auth-User-Reseller-Admin: true, one store request at a time; race.self
\* holds the user, the handler's position, the account id it read and its
\* answer
SelfStart(user) ==
    [self |-> [user |-> user, pc |-> "start", account_id |-> None,
               status |-> 0]]
SelfRequest(user) ==
    [BlankReq EXCEPT !.op = "put_user", !.account = "act", !.user = user,
                     !.key = "key", !.x_auth_user_reseller_admin = TRUE,
                     !.admin_user = "act:" \o user, !.admin_key = "key"]

SelfPut ==
    LET p == race.self
        r == SelfRequest(p.user)
        record == [auth |-> encode(r.key, r.urandom),
                   groups |-> NewUserGroups(r),
                   auth_token |-> None, account_id |-> p.account_id]
        done(status) == [p EXCEPT !.pc = "done", !.status = status]
    IN  /\ race # Idle
        /\ p.pc # "done"
        /\ CASE p.pc = "start" ->
                  \* the privilege check: GET of the caller's user object
                  /\ race' = [race EXCEPT !.self =
                        IF ~PutUserGate(r).ok
                        THEN done(denied_response("", PutUserGate(r).cv))
                        ELSE [p EXCEPT !.pc = "container_head"]]
                  /\ UNCHANGED users
             [] p.pc = "container_head" ->
                  \* HEAD of the account's container for its account id
                  /\ race' = [race EXCEPT !.self =
                        IF containers[r.account] = Missing
                           \/ containers[r.account].account_id = None
                        THEN done(500)
                        ELSE [p EXCEPT !.pc = "user_put",
                                       !.account_id =
                                          containers[r.account].account_id]]
                  /\ UNCHANGED users
             [] p.pc = "user_put" ->
                  \* PUT of the user object
                  /\ race' = [race EXCEPT !.self = done(201)]
                  /\ users' = [users EXCEPT ![<<r.account, r.user>>] = record]
        /\ UNCHANGED <<conf, now, tokens, cache, containers, services,
                       mappings, clusters, itoken, minted, revoked, req, resp,
                       areq, aresp>>

\* time passes
Tick ==
    /\ now < MaxTime
    /\ now' = now + 1
    /\ req' = [BlankReq EXCEPT !.op = "tick"]
    /\ resp' = Respond(Outcome(0))
    /\ UNCHANGED <<conf, users, tokens, cache, containers, services, mappings,
                   clusters, itoken, minted, revoked, areq, aresp, race>>

\* two PUT v2/<account> for the same account, both by the super admin and
\* each with its own X-Account-Suffix, handled by two workers at once: every
\* request to the cluster and to the backing store is a step of its own.
\* race.workers[w] holds the position, the suffix and the answer of worker w.
PutWorkers == {1, 2}
PairStart(account, suffix1, suffix2) ==
    [account |-> account,
     workers |-> [w \in PutWorkers |->
                     [pc |-> "cluster_put",
                      suffix |-> IF w = 1 THEN suffix1 ELSE suffix2,
                      status |-> 0]]]

\* handle_put_account, one request at a time
PairPut(w) ==
    LET p == race.workers[w]
        a == race.account
        account_id == reseller_prefix \o p.suffix
        path == urlparse(dsc_url2).path \o "/" \o account_id
        container == ContainerObj(a)
    IN  /\ race # Idle
        /\ p.pc # "done"
        /\ CASE p.pc = "cluster_put" ->
                  \* PUT of the storage account on the cluster
                  /\ clusters' = [clusters EXCEPT
                                     ![urlparse(dsc_url2).netloc] =
                                        @ \cup {StorageAccount(path)}]
                  /\ itoken' = get_itoken(itoken, BlankReq)
                  /\ race' = [race EXCEPT !.workers[w].pc = "container_head"]
                  /\ UNCHANGED <<containers, services, mappings>>
             [] p.pc = "container_head" ->
                  \* HEAD of the account's container
                  /\ race' = [race EXCEPT !.workers[w] =
                        IF container = Missing
                        THEN [p EXCEPT !.pc = "container_put"]
                        ELSE IF AlreadyCreated(container)
                        THEN [p EXCEPT !.pc = "done", !.status = 202]
                        ELSE [p EXCEPT !.pc = "mapping_put"]]
                  /\ UNCHANGED <<containers, services, mappings, clusters,
                                 itoken>>
             [] p.pc = "container_put" ->
                  \* PUT of the container: an existing one keeps its metadata
                  /\ containers' = [containers EXCEPT ![a] =
                                       IF @ = Missing
                                       THEN NewContainer(account_id) ELSE @]
                  /\ race' = [race EXCEPT !.workers[w].pc = "mapping_put"]
                  /\ UNCHANGED <<services, mappings, clusters, itoken>>
             [] p.pc = "mapping_put" ->
                  /\ mappings' = [mappings EXCEPT ![account_id] =
                                     [body |-> a]]
                  /\ race' = [race EXCEPT !.workers[w].pc = "services_put"]
                  /\ UNCHANGED <<containers, services, clusters, itoken>>
             [] p.pc = "services_put" ->
                  /\ services' = [services EXCEPT ![a] =
                                     NewServices(account_id)]
                  /\ race' = [race EXCEPT !.workers[w].pc = "container_post"]
                  /\ UNCHANGED <<containers, mappings, clusters, itoken>>
             [] p.pc = "container_post" ->
                  \* POST of X-Container-Meta-Account-Id
                  /\ containers' = [containers EXCEPT ![a] =
                                       [account_id |-> account_id]]
                  /\ race' = [race EXCEPT !.workers[w] =
                                 [p EXCEPT !.pc = "done", !.status = 201]]
                  /\ UNCHANGED <<services, mappings, clusters, itoken>>
        /\ UNCHANGED <<conf, now, users, tokens, cache, minted, revoked, req,
                       resp, areq, aresp>>

\* ------------------------------------------------------- specifications
\* the store, the cache and the clock after construction
Store ==
    /\ now = 0
    /\ users = [id \in UserIds |-> Missing]
    /\ tokens = [n \in ObjNames |-> Missing]
    /\ cache = [t \in Tokens |-> Missing]
    /\ containers = [a \in Accounts |->
                       [account_id |-> reseller_prefix \o a]]
    /\ services = [a \in Accounts |->
                     [storage |-> [default |-> "local",
                                   local |-> "http://127.0.0.1:8080/v1/"
                                             \o reseller_prefix \o a]]]
    /\ mappings = [id \in AcctIds |->
                      IF \E a \in Accounts : id = reseller_prefix \o a
                      THEN [body |-> SubSeq(id, Len(reseller_prefix) + 1,
                                            Len(id))]
                      ELSE Missing]
    /\ clusters = [h \in ClusterHosts |->
                      IF h = urlparse(dsc_url2).netloc
                      THEN {reseller_prefix \o a : a \in Accounts} ELSE {}]
    /\ itoken = get_itoken(NoItoken, BlankReq)
    /\ minted = 0
    /\ revoked = {}
    /\ race = Idle
    /\ req = BlankReq
    /\ resp = Respond(Outcome(0))

\* the store under the default configuration
StoreInit ==
    /\ conf = DefaultConf
    /\ Store

\* the auth account after .prep and PUT v2/act, PUT v2/oth: two completed
\* accounts, no users, no tokens
Init ==
    /\ StoreInit
    /\ areq = Idle
    /\ aresp = Idle

\* the token lifecycle: the super admin creates and deletes the user act:usr
\* (a plain user only before the first token is minted, which keeps the group
\* lists of the stored tokens few), the user asks for tokens, tokens are
\* validated, time passes
Next ==
    \/ \E admin \in BOOLEAN :
          /\ admin \/ minted = 0
          /\ PutUser("act", "usr", "key", "", admin, FALSE,
                     SuperAdmin.admin_user, SuperAdmin.admin_key, "none")
    \/ DeleteUser("act", "usr", SuperAdmin.admin_user, SuperAdmin.admin_key,
                  "none")
    \/ \E new_token \in BOOLEAN :
          GetToken("act", "usr", "key", new_token, "", "none")
    \/ GetToken("act", "usr", "key", TRUE, "", "token_delete")
    \/ \E t \in Tokens, fail \in {"none", "token_get", "token_delete"} :
          GetGroups(t, fail)
    \/ \E t \in Tokens : ValidateToken(t, "none")
    \/ Tick

Spec == Init /\ [][Next]_vars

\* user administration in account act: every caller against the users act:usr
\* and act:adm. A caller presents the key "key", which is wrong once the
\* caller's key was changed; a user changes its own key to "key2". The admin
\* oth:adm of another account is put there and removed by the super admin,
\* and act:adm asks for the first token.
AdminTargets == {<<"act", "usr">>, <<"act", "adm">>}
Caller(id) == [admin_user |-> id[1] \o ":" \o id[2], admin_key |-> "key"]
AdminCallers ==
    {[admin_user |-> "", admin_key |-> ""], SuperAdmin, Caller(<<"oth", "adm">>)}
    \cup {Caller(id) : id \in AdminTargets}
AdminFlags ==
    {[admin |-> FALSE, reseller_admin |-> FALSE],
     [admin |-> TRUE, reseller_admin |-> FALSE],
     [admin |-> FALSE, reseller_admin |-> TRUE]}

NextAdmin ==
    \/ \E id \in AdminTargets, f \in AdminFlags, c \in AdminCallers :
          PutUser(id[1], id[2], "key", "", f.admin, f.reseller_admin,
                  c.admin_user, c.admin_key, "none")
    \/ \E id \in AdminTargets, f \in AdminFlags :
          PutUser(id[1], id[2], "key2", "", f.admin, f.reseller_admin,
                  Caller(id).admin_user, Caller(id).admin_key, "none")
    \/ PutUser("oth", "adm", "key", "", TRUE, FALSE, SuperAdmin.admin_user,
               SuperAdmin.admin_key, "none")
    \/ \E id \in AdminTargets, c \in AdminCallers :
          DeleteUser(id[1], id[2], c.admin_user, c.admin_key, "none")
    \/ DeleteUser("oth", "adm", SuperAdmin.admin_user, SuperAdmin.admin_key,
                  "none")
    \/ minted = 0 /\ GetToken("act", "adm", "key", FALSE, "", "none")

SpecAdmin == Init /\ [][NextAdmin]_vars

\* account administration by the super admin, from the auth account as
\* POST v2/.prep leaves it: no account, no user, no storage account. Every
\* store request of PUT v2/act and DELETE v2/act may be the one that fails; a
\* second endpoint is added to the .services object, and the clusters are
\* contacted in either order.
PrepInit ==
    /\ conf = DefaultConf
    /\ now = 0
    /\ users = [id \in UserIds |-> Missing]
    /\ tokens = [n \in ObjNames |-> Missing]
    /\ cache = [t \in Tokens |-> Missing]
    /\ containers = [a \in Accounts |-> Missing]
    /\ services = [a \in Accounts |-> Missing]
    /\ mappings = [id \in AcctIds |-> Missing]
    /\ clusters = [h \in ClusterHosts |-> {}]
    /\ itoken = NoItoken
    /\ minted = 0
    /\ revoked = {}
    /\ race = Idle
    /\ req = BlankReq
    /\ resp = Respond(Outcome(0))
    /\ areq = Idle
    /\ aresp = Idle

PutAccountFails ==
    {"none", "cluster_put", "container_head", "container_put", "mapping_put",
     "services_put", "container_post"}
DeleteAccountFails ==
    {"none", "listing", "services_get", "services_delete", "mapping_delete",
     "container_delete"}
ClusterOrders == {<<"default", dsc_name, "other">>, <<"other", "default", dsc_name>>}
OtherEndpoint == [storage |-> [other |-> "http://10.0.0.2:8080/v1/AUTH_act"]]

NextAccount ==
    \/ \E suffix \in {"", "sfx"}, fail \in PutAccountFails :
          PutAccount("act", suffix, SuperAdmin, fail)
    \/ \E order \in ClusterOrders, fail \in DeleteAccountFails :
          DeleteAccount("act", SuperAdmin, order, fail, "")
    \/ \E order \in ClusterOrders, fail \in {"cluster_409", "cluster_500"},
          name \in {dsc_name, "other"} :
          DeleteAccount("act", SuperAdmin, order, fail, name)
    \/ SetServices("act", OtherEndpoint, SuperAdmin, "none")
    \/ PutUser("act", "usr", "key", "", FALSE, FALSE, SuperAdmin.admin_user,
               SuperAdmin.admin_key, "none")
    \/ DeleteUser("act", "usr", SuperAdmin.admin_user, SuperAdmin.admin_key,
                  "none")

SpecAccount == PrepInit /\ [][NextAccount]_vars

\* the internal token: the super admin asks for it with and without
\* X-Auth-New-Token and with a wrong key, account create and delete use it on
\* the cluster, and time passes until it expires
NextItoken ==
    \/ \E key \in {super_admin_key, "bad"}, new_token \in BOOLEAN :
          GetToken(".super_admin", ".super_admin", key, new_token, "", "none")
    \/ PutAccount("act", "sfx", SuperAdmin, "none")
    \/ DeleteAccount("act", SuperAdmin, <<"default", dsc_name>>, "none", "")
    \/ Tick

SpecItoken == PrepInit /\ [][NextItoken]_vars

\* the lifetime of minted tokens: the middleware is constructed with
\* token_life below, equal to and above max_token_life; the super admin
\* creates act:usr, who asks for tokens with every kind of
\* X-Auth-Token-Lifetime header, and time passes
LifeConfs ==
    {[DefaultConf EXCEPT !.token_life = c[1], !.max_token_life = c[2]] :
        c \in {<<1, 1>>, <<1, 2>>, <<2, 1>>}}
LifeHeaders == {"", "0", "1", "3", "-1", "1.5"}

InitLife ==
    /\ conf \in LifeConfs
    /\ Store
    /\ areq = Idle
    /\ aresp = Idle

NextLife ==
    \/ PutUser("act", "usr", "key", "", FALSE, FALSE, SuperAdmin.admin_user,
               SuperAdmin.admin_key, "none")
    \/ \E new_token \in BOOLEAN, lifetime \in LifeHeaders :
          GetToken("act", "usr", "key", new_token, lifetime, "none")
    \/ Tick

SpecLife == InitLife /\ [][NextLife]_vars

\* the three codecs: the middleware is constructed with one of them, with or
\* without a fixed salt; the super admin stores act:usr with a key, which the
\* configured codec encodes (drawing a random salt when none is fixed), or
\* with a credential already encoded by any of the codecs; then the user asks
\* for a token with one of the keys, which ends the behaviour
CodecConfs ==
    {[DefaultConf EXCEPT !.auth_type = t, !.auth_type_salt = salt] :
        t \in {"Plaintext", "Sha1", "Sha512"}, salt \in {None, "salt"}}
CodecTypes == {"plaintext", "sha1", "sha512"}
\* every credential a codec writes for a tabulated key and salt
CodecCredentials ==
    {encode_w_salt(t, salt, key) :
        t \in CodecTypes, salt \in HashSalts, key \in HashKeys}

\* PUT v2/act/usr by the super admin with a key, os.urandom giving urandom
PutUserKey(key, urandom) ==
    LET r == [AdminReq("put_user", SuperAdmin) EXCEPT !.account = "act",
                                                      !.user = "usr",
                                                      !.key = key,
                                                      !.urandom = urandom]
    IN  Apply(r, handle_put_user(r)) /\ UNCHANGED revoked

InitCodec ==
    /\ conf \in CodecConfs
    /\ Store
    /\ areq = Idle
    /\ aresp = Idle

NextCodec ==
    /\ req.op # "get_token"
    /\ \/ \E key \in HashKeys, urandom \in HashSalts :
             PutUserKey(key, urandom)
       \/ \E key_hash \in CodecCredentials :
             PutUser("act", "usr", "", key_hash, FALSE, FALSE,
                     SuperAdmin.admin_user, SuperAdmin.admin_key, "none")
       \/ \E key \in HashKeys :
             GetToken("act", "usr", key, FALSE, "", "none")

SpecCodec == InitCodec /\ [][NextCodec]_vars

\* the reseller_request flag: the super admin stores act:usr, as a plain user
\* or a reseller admin, and the plain user act:usr.reseller_admin; each is
\* granted a token; a request to the proxy with a token ends the behaviour
NextFlag ==
    /\ req.op # "call"
    /\ \/ \E reseller_admin \in BOOLEAN :
             PutUser("act", "usr", "key", "", FALSE, reseller_admin,
                     SuperAdmin.admin_user, SuperAdmin.admin_key, "none")
       \/ PutUser("act", "usr.reseller_admin", "key", "", FALSE, FALSE,
                  SuperAdmin.admin_user, SuperAdmin.admin_key, "none")
       \/ \E user \in {"usr", "usr.reseller_admin"} :
             GetToken("act", user, "key", FALSE, "", "none")
       \/ \E token \in Tokens :
             Call("GET", "/v1/AUTH_act/c/o", token, NoS3, "", FALSE, FALSE,
                  "none")

SpecFlag == Init /\ [][NextFlag]_vars

\* ownership of storage accounts: the super admin creates the accounts act
\* and oth, each with its own suffix or with the suffix sfx, deletes act, and
\* creates the admin act:adm, who is granted a token; a storage request with a
\* token on one of the storage accounts ends the behaviour
NextOwner ==
    /\ req.op # "call"
    /\ \/ \E a \in Accounts :
             \E suffix \in {a, "sfx"} :
                PutAccount(a, suffix, SuperAdmin, "none")
       \/ DeleteAccount("act", SuperAdmin, <<"default", dsc_name>>, "none", "")
       \/ PutUser("act", "adm", "key", "", TRUE, FALSE, SuperAdmin.admin_user,
                  SuperAdmin.admin_key, "none")
       \/ DeleteUser("act", "adm", SuperAdmin.admin_user,
                     SuperAdmin.admin_key, "none")
       \/ GetToken("act", "adm", "key", FALSE, "", "none")
       \/ \E token \in Tokens, s \in Suffixes :
             StorageRequest(token, reseller_prefix \o s)

SpecOwner == PrepInit /\ [][NextOwner]_vars

\* requests to the proxy: the super admin creates act:usr, who is granted a
\* token; time passes; then a request arrives with one of the methods, paths,
\* tokens, S3 details and already installed authorize hooks below, with or
\* without a keystone identity and an authorize override. The middleware is
\* constructed with S3 support off or on, and with the plaintext codec or the
\* sha1 codec with or without a fixed salt. An S3 signature is made with the
\* user's key, with the sha1 digest stored for it, or with something else.
CallConfs ==
    {[DefaultConf EXCEPT !.s3_support = on, !.auth_type = c[1],
                         !.auth_type_salt = c[2]] :
        on \in BOOLEAN,
        c \in {<<"Plaintext", None>>, <<"Sha1", None>>, <<"Sha1", "salt">>}}
CallPaths == {"/v1/AUTH_act/c/o", "/v1/OTHER_act/c", "/v1", "/auth",
              "/auth/v2/act"}
CallTokens == {""} \cup Tokens \cup {reseller_prefix \o "bogus", "OTHER_tk0a"}
CallS3 ==
    {NoS3} \cup
    {[access_key |-> "act:usr", signature |-> sig, string_to_sign |-> "msg"] :
        sig \in {hmac_sha1_base64(password, "msg") :
                    password \in {"key", sha1_hexdigest("saltkey"), "bad"}}}

InitCall ==
    /\ conf \in CallConfs
    /\ Store
    /\ areq = Idle
    /\ aresp = Idle

\* a request to the proxy is the last step of its behaviour
NextCall ==
    /\ req.op # "call"
    /\ \/ PutUser("act", "usr", "key", "", TRUE, FALSE, SuperAdmin.admin_user,
                  SuperAdmin.admin_key, "none")
       \/ GetToken("act", "usr", "key", FALSE, "", "none")
       \/ Tick
       \/ \E method \in {"GET", "OPTIONS"}, path_info \in CallPaths,
             token \in CallTokens, s3 \in CallS3,
             swift_authorize \in {"", "other"},
             fail \in {"none", "token_get"} :
             Call(method, path_info, token, s3, swift_authorize, FALSE, FALSE,
                  fail)
       \/ \E token \in CallTokens, keystone_identity \in BOOLEAN :
             Call("GET", "/v1/AUTH_act/c/o", token, NoS3, "",
                  keystone_identity, ~keystone_identity, "none")

SpecCall == InitCall /\ [][NextCall]_vars

\* the privilege gate of every v2 admin operation: the super admin sets up
\* the users act:usr (plain), act:adm (account admin or reseller admin) and
\* oth:adm (admin of another account) and removes them; every caller - no
\* credentials, an unknown user, a wrong key, each stored user, the super
\* admin - then tries one operation
GateCallers ==
    {[admin_user |-> "", admin_key |-> ""],
     [admin_user |-> "act:nob", admin_key |-> "key"],
     [admin_user |-> "act:adm", admin_key |-> "bad"],
     Caller(<<"act", "usr">>), Caller(<<"act", "adm">>),
     Caller(<<"oth", "adm">>), SuperAdmin}

\* x-auth-user-admin and x-auth-user-reseller-admin, each set or not
GateFlags == [admin : BOOLEAN, reseller_admin : BOOLEAN]

GateRequest ==
    \/ PutUser("act", "usr", "key", "", FALSE, FALSE, SuperAdmin.admin_user,
               SuperAdmin.admin_key, "none")
    \/ \E reseller_admin \in BOOLEAN :
          PutUser("act", "adm", "key", "", ~reseller_admin, reseller_admin,
                  SuperAdmin.admin_user, SuperAdmin.admin_key, "none")
    \/ PutUser("oth", "adm", "key", "", TRUE, FALSE, SuperAdmin.admin_user,
               SuperAdmin.admin_key, "none")
    \/ \E c \in GateCallers : Prep(c, "none")
    \/ \E c \in GateCallers : GetReseller(c, "none")
    \/ \E c \in GateCallers, a \in Accounts : GetAccount(a, c, "none")
    \/ \E c \in GateCallers : SetServices("act", OtherEndpoint, c, "none")
    \/ \E c \in GateCallers, a \in Accounts :
          PutAccount(a, a, c, "none")
    \/ \E c \in GateCallers, a \in Accounts :
          DeleteAccount(a, c, <<"default", dsc_name, "other">>, "none", "")
    \/ \E c \in GateCallers, u \in StockUserNames \cup {".groups"} :
          GetUser("act", u, c, "none")
    \/ \E c \in GateCallers, f \in GateFlags :
          PutUser("act", "usr", "key", "", f.admin, f.reseller_admin,
                  c.admin_user, c.admin_key, "none")
    \/ \E c \in GateCallers, id \in Accounts \X StockUserNames :
          DeleteUser(id[1], id[2], c.admin_user, c.admin_key, "none")

\* a request of another caller than the super admin is the last of its
\* behaviour: the stored states are those the super admin's requests build
NextGate ==
    /\ req.op = "none" \/ req.admin_user = SuperAdmin.admin_user
    /\ GateRequest

SpecGate == Init /\ [][NextGate]_vars

\* a DELETE v2/<a> and a PUT v2/<a>/<u> arrive together, for either account and
\* either user name, over the two completed accounts
InitRace ==
    /\ StoreInit
    /\ areq = Idle
    /\ aresp = Idle

RaceBegin ==
    /\ race = Idle
    /\ \E da \in Accounts, pa \in Accounts, u \in StockUserNames :
          race' = RaceStart(da, pa, u)
    /\ UNCHANGED <<conf, now, users, tokens, cache, containers, services,
                   mappings, clusters, itoken, minted, revoked, req, resp, areq,
                   aresp>>

NextRace == RaceBegin \/ RaceDelete \/ RacePut

SpecRace == InitRace /\ [][NextRace]_vars

\* authorize is a function of the request alone: a request of AuthzRequests
\* reaches the hook, over the same store
InitAuthz ==
    /\ StoreInit
    /\ areq \in AuthzRequests
    /\ aresp = Idle

NextAuthz == Authorize

SpecAuthz == InitAuthz /\ [][NextAuthz]_vars


\* ---------------------------------------------------------------- claims
\* C1: a validation (the middleware's get_groups or GET v2/.token/T) of a
\* token T that is not revoked and whose stored object has expires = e:
\* before e, when the store answers, it succeeds and reports the translated
\* groups of T (GET v2/.token/T with ttl = e - now); after e it fails, whether
\* the cache still holds an entry of T or only the object does, and when the
\* store takes the DELETE the expired object is gone afterwards.
C1_ValidationFollowsExpiry ==
    [][\A t \in Tokens :
        (req'.op \in {"get_groups", "validate_token"} /\ req'.token = t)
        => LET detail == TokenObj(t)
               cached == CacheGet(t)
               ok == IF req'.op = "get_groups" THEN resp'.groups # None
                     ELSE resp'.status = 204
           IN  /\ (detail # Missing /\ t \notin revoked /\ now < detail.expires
                   /\ ~resp'.faulted)
                  => /\ ok
                     /\ resp'.groups = TranslateGroups(detail)
                     /\ (req'.op = "validate_token"
                           => resp'.ttl = detail.expires - now)
                     /\ tokens' = tokens
               /\ (detail # Missing /\ now > detail.expires)
                  => /\ ~ok
                     /\ resp'.groups = None
                     /\ (~resp'.faulted
                           => tokens'[_get_concealed_token(t)] = Missing)
               /\ (detail = Missing /\ cached # Missing /\ now > cached.expires)
                  => ~ok /\ resp'.groups = None]_vars

\* C1 witness: the user's back-reference still names T, so T was neither
\* revoked nor its user deleted, and a validation of T has failed and left no
\* token object: it read the expired object and deleted it.
C1_ExpiredTokenReaped ==
    \E t \in Tokens :
        /\ req.op \in {"get_groups", "validate_token"}
        /\ req.token = t
        /\ resp.groups = None
        /\ ~resp.faulted
        /\ UserObj("act", "usr") # Missing
        /\ UserObj("act", "usr").auth_token = t
        /\ TokenObj(t) = Missing
        /\ now > token_life

\* C2: a grant with the correct key and without X-Auth-New-Token, for a user
\* whose back-reference names a token object with expires > now, returns that
\* token, writes no token object and leaves the user record as it is.
C2_LiveTokenReused ==
    [][(req'.op = "get_token" /\ ~req'.new_token /\ ~resp'.faulted)
       => LET user_detail == UserObj(req'.account, req'.user)
          IN  (/\ user_detail # Missing
               /\ user_detail.auth = encode(req'.key, req'.urandom)
               /\ user_detail.auth_token # None
               /\ TokenObj(user_detail.auth_token) # Missing
               /\ TokenObj(user_detail.auth_token).expires > now)
              => /\ resp'.status = 200
                 /\ resp'.token = user_detail.auth_token
                 /\ resp'.ttl = TokenObj(user_detail.auth_token).expires - now
                 /\ tokens' = tokens
                 /\ users' = users
                 /\ minted' = minted]_vars

\* C2 witness: the last request was a grant without X-Auth-New-Token that
\* returned T while the cache holds an entry of T; the entry was written by
\* a validation of T after T was minted, so this grant returned the existing
\* token.
C2_GrantReturnedValidatedToken ==
    \E t \in Tokens :
        /\ req.op = "get_token"
        /\ ~req.new_token
        /\ resp.status = 200
        /\ resp.token = t
        /\ CacheGet(t) # Missing
        /\ TokenObj(t) # Missing
        /\ minted = 1

C4_DeleteUserRevokesToken ==
    [][(req'.op = "delete_user" /\ resp'.status = 204
        /\ UserObj(req'.account, req'.user) # Missing)
       => LET T == UserObj(req'.account, req'.user).auth_token
          IN  T # None
              => /\ tokens'[_get_concealed_token(T)] = Missing
                 /\ cache'[T] = Missing]_vars

\* C4 witness: the user is deleted, its token has no token object, and a
\* get_groups validation of the token has just succeeded from the cache.
C4_DeletedUsersTokenStillValid ==
    \E t \in Tokens :
        /\ UserObj("act", "usr") = Missing
        /\ TokenObj(t) = Missing
        /\ t \notin revoked
        /\ req.op = "get_groups"
        /\ req.token = t
        /\ resp.groups # None

\* C5: the cache entry of a token T is written only by a get_groups
\* validation of T that read T's token object and found it unexpired; the
\* entry holds the stored expires, the translated stored groups and the
\* remaining lifetime as its TTL. A validation that finds no object, an
\* expired object or a backing error leaves the cache as it is.
C5_CacheWrittenOnlyByValidation ==
    [][\A t \in Tokens :
        /\ (cache'[t] # cache[t] /\ cache'[t] # Missing)
           => /\ req'.op = "get_groups"
              /\ req'.token = t
              /\ TokenObj(t) # Missing
              /\ TokenObj(t).expires >= now
              /\ cache'[t].expires = TokenObj(t).expires
              /\ cache'[t].groups = TranslateGroups(TokenObj(t))
              /\ cache'[t].ttl = TokenObj(t).expires - now
              /\ resp'.groups = cache'[t].groups
        /\ (/\ req'.op \in {"get_groups", "validate_token"}
            /\ req'.token = t
            /\ \/ TokenObj(t) = Missing
               \/ TokenObj(t).expires < now
               \/ resp'.faulted)
           => cache' = cache]_vars

\* C5 witness: a get_groups validation of an admin's token has cached the
\* translated groups with the remaining lifetime.
C5_ValidationCachedTranslatedGroups ==
    \E t \in Tokens :
        /\ req.op = "get_groups"
        /\ req.token = t
        /\ CacheGet(t) # Missing
        /\ CacheGet(t).groups = "act:usr,act,AUTH_act"
        /\ CacheGet(t).ttl = CacheGet(t).expires - now
        /\ resp.groups = CacheGet(t).groups

C7_CrossResellerDenied ==
    (areq # Idle /\ aresp # Idle /\ areq.path_ok
     /\ ~startswith(areq.account, reseller_prefix))
    => /\ ~aresp.swift_owner
       /\ aresp.status = IF areq.remote_user # "" THEN 403 ELSE 401

\* C7 witness: /v1/OTHER_cfa asked by a principal whose groups list act,
\* under the ACL act, is answered 403.
C7_CrossResellerForbidden ==
    /\ areq # Idle
    /\ aresp # Idle
    /\ areq.account = "OTHER_cfa"
    /\ areq.remote_user = "act:usr,act"
    /\ areq.acl = "act"
    /\ aresp.status = 403

C10_ResellerAdminDeletedOnlyBySuperAdmin ==
    [][(/\ req'.op = "delete_user"
        /\ UserObj(req'.account, req'.user) # Missing
        /\ InSeq(".reseller_admin", UserObj(req'.account, req'.user).groups))
       => IF is_super_admin(req')
          THEN /\ resp'.status = 204
               /\ users'[<<req'.account, req'.user>>] = Missing
          ELSE /\ resp'.status = 403
               /\ users' = users
               /\ tokens' = tokens
               /\ cache' = cache]_vars

\* C10 witness: a DELETE of a reseller admin who holds a token, by a caller
\* that is not the super admin, was answered 403 and the user and the token
\* object are still there.
C10_ResellerAdminDeleteRefused ==
    \E id \in UserIds :
        /\ req.op = "delete_user"
        /\ <<req.account, req.user>> = id
        /\ ~is_super_admin(req)
        /\ resp.status = 403
        /\ users[id] # Missing
        /\ InSeq(".reseller_admin", users[id].groups)
        /\ users[id].auth_token # None
        /\ TokenObj(users[id].auth_token) # Missing

\* C11: GET v2/<a>/<u> returns the record of a user (its groups and its
\* stored credential) only to a caller the gate admits; the record of a user
\* holding .admin only to a reseller admin or the super admin; the record of a
\* user holding .reseller_admin only to the super admin. An account admin
\* obtains only records of users without .admin; a refused caller gets 401 or
\* 403 and no body.
C11_GetUserByRole ==
    [][(req'.op = "get_user" /\ req'.user # ".groups")
       => LET target == UserObj(req'.account, req'.user)
          IN  /\ resp'.status = 200
                 => /\ target # Missing
                    /\ resp'.body = [auth |-> target.auth,
                                     groups |-> target.groups]
                    /\ is_account_admin(req', req'.account).ok
                    /\ InSeq(".admin", target.groups)
                       => is_reseller_admin(req').ok
                    /\ InSeq(".reseller_admin", target.groups)
                       => is_super_admin(req')
              /\ resp'.status # 200 => resp'.body = NoBody
              /\ (target # Missing /\ ~InSeq(".admin", target.groups)
                  /\ is_account_admin(req', req'.account).ok)
                 => resp'.status = 200]_vars

\* C11 witness: the account admin act:adm, no reseller admin, asked for the
\* record of the reseller admin act:usr with valid credentials and got 403.
C11_AccountAdminRefusedAdminRecord ==
    /\ req.op = "get_user"
    /\ req.admin_user = "act:adm"
    /\ req.user = "usr"
    /\ resp.status = 403
    /\ resp.body = NoBody
    /\ UserObj("act", "usr") # Missing
    /\ InSeq(".reseller_admin", UserObj("act", "usr").groups)
    /\ is_account_admin(req, "act").ok
    /\ ~is_reseller_admin(req).ok

\* the account id a PUT v2/<account> request works with, seen from the state
\* it leaves: the given suffix, or the uuid4 it drew
PutAccountId(r, n) ==
    reseller_prefix \o (IF r.suffix # "" THEN r.suffix ELSE uuid4(n))

\* the container of account a carries the account id id, the mapping object
\* of id has body a, and the .services object's default names an endpoint of
\* its storage map whose URL ends in id
Completed(a, id, cs, ms, ss) ==
    /\ cs[a] # Missing
    /\ cs[a].account_id = id
    /\ ms[id] = [body |-> a]
    /\ ss[a] # Missing
    /\ LET storage == ss[a].storage
       IN  /\ "default" \in DOMAIN storage
           /\ storage["default"] \in DOMAIN storage \ {"default"}
           /\ LET url == storage[storage["default"]]
              IN  /\ Len(url) >= Len(id)
                  /\ SubSeq(url, Len(url) - Len(id) + 1, Len(url)) = id

\* C12: after PUT v2/<a> with suffix s returns 201, the container
\* AUTH_.auth/a carries account-id = AUTH_s, the object
\* AUTH_.auth/.account_id/AUTH_s has body a, and AUTH_.auth/a/.services has a
\* storage map whose default names an endpoint of the map whose URL ends in
\* AUTH_s (s the drawn uuid4 when no suffix is given).
C12_CreatedAccountIsCompleted ==
    (req.op = "put_account" /\ resp.status = 201)
    => Completed(req.account, PutAccountId(req, minted), containers, mappings,
                 services)

\* C12 witness: PUT v2/act with X-Account-Suffix: sfx has returned 201 and
\* the container carries AUTH_sfx.
C12_AccountCreatedWithSuffix ==
    /\ req.op = "put_account"
    /\ req.suffix = "sfx"
    /\ resp.status = 201
    /\ containers["act"] # Missing
    /\ containers["act"].account_id = reseller_prefix \o "sfx"

\* the account-id metadatum of account a implies its mapping object and its
\* .services object
Marked(a, cs, ms, ss) ==
    (cs[a] # Missing /\ cs[a].account_id # None)
    => (ms[cs[a].account_id] = [body |-> a] /\ ss[a] # Missing)

C14_AcceptedPutChangesNothing ==
    [][(req'.op = "put_account" /\ AlreadyCreated(ContainerObj(req'.account))
        /\ ~resp'.faulted /\ resp'.status \notin {401, 403})
       => /\ resp'.status = 202
          /\ UNCHANGED <<containers, services, mappings, users, tokens>>
          /\ UNCHANGED clusters]_vars

\* C14 witness: a PUT v2/act answered 202 has left a storage account on the
\* cluster that no mapping object names.
C14_AcceptedPutCreatedStorageAccount ==
    /\ req.op = "put_account"
    /\ resp.status = 202
    /\ \E id \in clusters[urlparse(dsc_url2).netloc] : mappings[id] = Missing

\* C15: when the container AUTH_.auth/a exists without account-id, as a PUT
\* v2/<a> that failed after creating it leaves it, a PUT v2/<a> whose store
\* requests all succeed returns 201 and leaves the account-id metadatum, the
\* .account_id mapping and the .services storage URL naming the same account
\* id.
C15_RetryCompletesCreate ==
    [][(/\ req'.op = "put_account"
        /\ ContainerObj(req'.account) # Missing
        /\ ContainerObj(req'.account).account_id = None
        /\ ~resp'.faulted
        /\ resp'.status \notin {401, 403})
       => /\ resp'.status = 201
          /\ Completed(req'.account, PutAccountId(req', minted'), containers',
                       mappings', services')]_vars

\* C15 witness: PUT v2/act has returned 201 for an account id other than the
\* one an earlier, failed PUT v2/act wrote a mapping for.
C15_RetriedAfterPartialCreate ==
    /\ req.op = "put_account"
    /\ resp.status = 201
    /\ \E id \in AcctIds :
          /\ containers["act"] # Missing
          /\ id # containers["act"].account_id
          /\ mappings[id] = [body |-> "act"]
          /\ id \notin {reseller_prefix \o a : a \in Accounts}

\* C16: DELETE v2/<a> returns 204 only if the container AUTH_.auth/a held no
\* object whose name does not begin with '.', on whichever page of the
\* listing it comes; when the listing shows such an object the answer is 409
\* and nothing is deleted: no storage account, no .services, no mapping, no
\* container.
C16_DeleteRefusedWhileUsers ==
    [][(req'.op = "delete_account" /\ req'.account \in Accounts)
       => LET a == req'.account
              hasUser == \E u \in UserNames : users[<<a, u>>] # Missing
          IN  /\ resp'.status = 204 => ~hasUser
              /\ (hasUser /\ req'.fail # "listing"
                  /\ resp'.status \notin {401, 403})
                 => /\ resp'.status = 409
                    /\ UNCHANGED <<containers, services, mappings, clusters,
                                   users>>]_vars

\* C16 witness: a DELETE v2/act was answered 409 while act held a user, which
\* the listing shows on its second page, after .services.
C16_DeleteAnsweredConflict ==
    /\ req.op = "delete_account"
    /\ req.fail = "none"
    /\ resp.status = 409
    /\ users[<<"act", "usr">>] # Missing
    /\ services["act"] # Missing
    /\ AlreadyCreated(containers["act"])

\* C17 as stated: when a DELETE v2/<a> and a PUT v2/<a>/<u> that ran together
\* have both finished, every account container that holds a user object
\* still carries its account-id, still has its .services object and still
\* has its .account_id mapping.
C17_UsersOnlyInCompleteAccounts ==
    (race # Idle /\ race.del.pc = "done" /\ race.put.pc = "done")
    => \A a \in Accounts :
          (\E u \in UserNames : users[<<a, u>>] # Missing)
          => /\ AlreadyCreated(containers[a])
             /\ services[a] # Missing
             /\ mappings[containers[a].account_id] = [body |-> a]

\* C17 witness: the PUT v2/act/usr returned 201 and the DELETE v2/act, whose
\* listing was read before the user object was written, ended in 500 at the
\* DELETE of the container: the user record is in an account without
\* .services object and without mapping.
C17_UserInHalfDeletedAccount ==
    /\ race # Idle
    /\ race.del.pc = "done"
    /\ race.del.status = 500
    /\ race.put.pc = "done"
    /\ race.put.status = 201
    /\ users[<<"act", "usr">>] # Missing
    /\ services["act"] = Missing
    /\ mappings[reseller_prefix \o "act"] = Missing

\* the endpoints of a .services object in the order a DELETE v2/<a> contacts
\* them
Contacted(r, storage) ==
    SelectSeq(r.order, LAMBDA n : n # "default" /\ n \in DOMAIN storage)

\* C18: during DELETE v2/<a>, a 409 from the first cluster contacted gives
\* 409, and a 409 from a later cluster, after a cluster delete went through,
\* gives 500; either way the .services object, the .account_id mapping and
\* the account's container stay as they were.
C18_ClusterConflict ==
    [][(req'.op = "delete_account" /\ req'.fail = "cluster_409"
        /\ resp'.faulted)
       => LET contacted == Contacted(req', services[req'.account].storage)
          IN  /\ req'.fail_name = contacted[1] => resp'.status = 409
              /\ req'.fail_name # contacted[1] => resp'.status = 500
              /\ UNCHANGED <<services, mappings, containers>>]_vars

\* C18 witness: a DELETE v2/act was answered 500 because the second cluster
\* answered 409 after the storage account on the first was deleted; the
\* .services object, the mapping and the container are still there.
C18_LaterClusterConflict ==
    /\ req.op = "delete_account"
    /\ req.fail = "cluster_409"
    /\ req.fail_name = "other"
    /\ resp.status = 500
    /\ resp.faulted
    /\ services["act"] # Missing
    /\ AlreadyCreated(containers["act"])
    /\ mappings[containers["act"].account_id] = [body |-> "act"]
    /\ containers["act"].account_id \notin clusters[urlparse(dsc_url2).netloc]

\* the v2 admin operations
AdminOps ==
    {"prep", "get_reseller", "get_account", "set_services", "put_account",
     "delete_account", "get_user", "put_user", "delete_user"}

\* the caller presents the key of a stored user, or is the super admin
ValidCredentials(r) ==
    is_super_admin(r) \/ credentials_match(get_admin_detail(r), r.admin_key)

\* C19 as stated: for every v2 admin operation, a caller with missing
\* credentials, an unknown admin user or a wrong key gets 401, and a caller
\* who presents the valid credentials of a stored user and is refused for
\* lack of privilege gets 403, never 401.
C19_DenialStatus ==
    [][(req'.op \in AdminOps /\ resp'.status # 400)
       => /\ ~ValidCredentials(req') => resp'.status = 401
          /\ (ValidCredentials(req') /\ ~is_super_admin(req'))
             => resp'.status # 401]_vars

\* C19 witness: the account admin act:adm presented its valid key with PUT
\* v2/act/usr and X-Auth-User-Reseller-Admin: true, and got 401.
C19_ValidAdminAnswered401 ==
    /\ req.op = "put_user"
    /\ req.x_auth_user_reseller_admin
    /\ req.admin_user = "act:adm"
    /\ credentials_match(get_admin_detail(req), req.admin_key)
    /\ resp.status = 401

\* C20 as stated: for every v2 admin operation other than token validation
\* the gate comes before any look at the target: a caller without valid
\* admin credentials gets 401 whether or not the target account or user
\* exists and whatever the target user's groups are.
C20_GateBeforeTarget ==
    [][\A op \in AdminOps :
        (req'.op = op /\ ~ValidCredentials(req') /\ resp'.status # 400)
        => resp'.status = 401]_vars

\* C20 witness: a DELETE v2/act/usr without credentials was answered 404
\* because act:usr does not exist; the same request is answered 401 or 403
\* when it does.
C20_MissingUserRevealed ==
    /\ req.op = "delete_user"
    /\ req.admin_user = ""
    /\ req.admin_key = ""
    /\ resp.status = 404
    /\ UserObj(req.account, req.user) = Missing


\* C21: get_itoken mints a new internal token exactly when the process holds
\* none, the held one has expired (itoken_expires < now) or the request
\* carries X-Auth-New-Token, and otherwise hands out the held token and
\* leaves it and its cache entry as they are. A mint writes the entry
\* (now + token_life, '.auth,.reseller_admin,AUTH_.auth') under the cache key
\* of the new token with TTL token_life, and the token returned is the one
\* the entry is for.
C21_ItokenMintedWhenStale ==
    [][LET called ==
               \/ req'.op = "get_token" /\ req'.user = ".super_admin"
                  /\ resp'.status = 200
               \/ req'.op = "put_account" /\ resp'.status \in {201, 202}
               \/ req'.op = "delete_account" /\ resp'.status = 204
                  /\ services[req'.account] # Missing
           stale == itoken.token = None \/ itoken.expires < now
                    \/ req'.new_token
       IN  /\ called => (stale <=> itoken' # itoken)
           /\ (called /\ req'.op = "get_token") => resp'.token = itoken'.token
           /\ itoken' # itoken
              => /\ called /\ stale
                 /\ itoken'.token # None /\ itoken'.token # itoken.token
                 /\ itoken'.expires = now + token_life
                 /\ itoken'.cache =
                       [key |-> reseller_prefix \o "/auth/" \o itoken'.token,
                        expires |-> now + token_life,
                        groups |-> ".auth,.reseller_admin," \o auth_account,
                        ttl |-> token_life]]_vars

\* the super admin asked twice at time 0, the second time with
\* X-Auth-New-Token: the held token was live and a second one was minted
C21_NewTokenFlagReminted ==
    /\ req.op = "get_token" /\ req.user = ".super_admin" /\ req.new_token
    /\ resp.status = 200
    /\ now = 0
    /\ itoken.n = 2
    /\ resp.token = itoken.token
    /\ itoken.cache.expires = token_life

\* C22: every token a grant mints has expires = now + min(L, max_token_life),
\* L being the X-Auth-Token-Lifetime header when it is supplied as an integer
\* and token_life when it is absent; and whatever the header holds and
\* whatever token_life is configured, no minted token lives longer than
\* max_token_life.
C22_MintedLifetimeCapped ==
    [][(req'.op = "get_token" /\ minted' = minted + 1)
       => LET expires == tokens'[_get_concealed_token(TokenName(minted'))].expires
              L == IF int(req'.lifetime).ok THEN int(req'.lifetime).v
                   ELSE token_life
          IN  /\ (req'.lifetime = "" \/ int(req'.lifetime).ok)
                 => expires = now + Min(L, max_token_life)
              /\ expires - now <= max_token_life]_vars

\* a token granted for longer than max_token_life
C22_TokenOutlivesMax ==
    /\ req.op = "get_token" /\ resp.status = 200
    /\ resp.token # None
    /\ TokenObj(resp.token) # Missing
    /\ resp.ttl > max_token_life
    /\ ~int(req.lifetime).ok /\ req.lifetime # ""

\* C23: with the reseller prefix AUTH_, a request whose token begins with the
\* prefix and for which get_groups finds no groups is answered 401 by the
\* middleware and is not passed to the next application. A request that is
\* passed on with neither a token nor an account of the prefix gets the
\* denial hook only when env holds no swift.authorize yet: a hook that was
\* there is the hook that leaves, and wherever the denial hook is installed
\* there was none before.
C23_DefiniteDenialOrDeferredDeny ==
    req.op = "call"
    => LET mine == req.token # "" /\ startswith(req.token, reseller_prefix)
           rest == split_path(req.path_info).rest
           my_account == rest # None /\ startswith(rest, reseller_prefix)
       IN  /\ (resp.validated /\ resp.groups = None /\ mine)
              => (resp.status = 401 /\ resp.route = "self")
           /\ (resp.route = "app" /\ resp.groups = None /\ ~mine
               /\ ~my_account /\ req.swift_authorize # "")
              => resp.swift_authorize = req.swift_authorize
           /\ (resp.route = "app" /\ resp.swift_authorize = "denied_response")
              => req.swift_authorize = ""

\* a token of the prefix that has expired is refused with 401 although
\* another middleware's hook is installed
C23_ExpiredTokenAnswered401 ==
    /\ req.op = "call" /\ req.token \in Tokens
    /\ req.swift_authorize = "other"
    /\ minted > 0
    /\ resp.validated /\ resp.status = 401 /\ resp.route = "self"
    /\ TokenObj(req.token) = Missing

\* no rule of authorize after the reseller-admin rule allows the request
NoOtherGrant(r) ==
    LET acl == parse_acl(r.acl)
        ug == user_groups_of(r.remote_user)
    IN  /\ ~AccountAdminRule(r)
        /\ ~SyncRule(r)
        /\ IF referrer_allowed(r.referer, acl.referrers)
           THEN r.obj = "" /\ ~InSeq(".rlistings", acl.groups)
           ELSE \A k \in 1..Len(ug) : ~InSeq(ug[k], acl.groups)

C25_AclGroupAllows ==
    (/\ areq # Idle /\ aresp # Idle /\ areq.path_ok
     /\ startswith(areq.account, reseller_prefix)
     /\ areq.remote_user # ""
     /\ \E k \in 1..Len(user_groups_of(areq.remote_user)) :
           InSeq(user_groups_of(areq.remote_user)[k],
                 parse_acl(areq.acl).groups))
    => aresp.status = 0

\* a principal the ACL names asks for a container listing with a Referer the
\* ACL allows, the ACL grants no .rlistings, and the request is refused
C25_MemberDeniedByReferrer ==
    /\ areq # Idle /\ aresp # Idle /\ areq.path_ok
    /\ areq.account = "AUTH_cfa" /\ areq.container # "" /\ areq.obj = ""
    /\ areq.method = "GET"
    /\ areq.remote_user = "oth:usr,oth,OTHER_cfa"
    /\ areq.acl = ".r:example.com,.r:-evil.com,oth"
    /\ areq.referer = "example.com"
    /\ aresp.status = 403

\* the Referers each ACL of AuthzAcls allows, and the ACL with .rlistings
RefererAllowedBy(acl, referer) ==
    \/ acl \in {".r:*", ".r:*,.rlistings"}
    \/ acl = ".r:example.com,.r:-evil.com,oth" /\ referer = "example.com"
GrantsListings(acl) == acl = ".r:*,.rlistings"

\* C26: a request with no principal that reaches the ACL rules (a parsed
\* path on an account of the prefix, not a container-sync request) is allowed
\* exactly when its Referer is allowed by the ACL's referrer list and the
\* path names an object or the ACL grants .rlistings; when the Referer is not
\* allowed, or the request is for a listing without .rlistings, it is denied
\* with 401.
C26_AnonymousByReferrer ==
    (/\ areq # Idle /\ aresp # Idle /\ areq.path_ok
     /\ startswith(areq.account, reseller_prefix)
     /\ areq.remote_user = ""
     /\ ~SyncRule(areq))
    => IF RefererAllowedBy(areq.acl, areq.referer)
          /\ (areq.obj # "" \/ GrantsListings(areq.acl))
       THEN aresp.status = 0 /\ ~aresp.swift_owner
       ELSE aresp.status = 401

\* an anonymous listing with an allowed Referer and no .rlistings: 401
C26_AnonymousListingDenied ==
    /\ areq # Idle /\ aresp # Idle /\ areq.path_ok
    /\ areq.account = "AUTH_cfa" /\ areq.container # "" /\ areq.obj = ""
    /\ areq.remote_user = ""
    /\ areq.acl = ".r:*" /\ areq.referer = "example.com"
    /\ aresp.status = 401

\* C27: on a request that no admin rule and no ACL allows, authorize allows
\* exactly when the request's x-container-sync-key is the container's
\* non-empty sync key, the request carries x-timestamp, and its direct or its
\* forwarded client address is in allowed_sync_hosts; a request without
\* principal that misses one of the three is denied with 401.
C27_SyncNeedsKeyTimestampHost ==
    (/\ areq # Idle /\ aresp # Idle /\ areq.path_ok
     /\ startswith(areq.account, reseller_prefix)
     /\ areq.acl = None
     /\ ~ResellerAdminRule(areq) /\ ~AccountAdminRule(areq))
    => LET key == /\ areq.swift_sync_key # ""
                  /\ areq.x_container_sync_key = areq.swift_sync_key
           timestamp == areq.x_timestamp
           host == \E h \in allowed_sync_hosts :
                      h = areq.remote_addr \/ h = areq.remote_client
       IN  /\ aresp.status = 0 <=> (key /\ timestamp /\ host)
           /\ (areq.remote_user = "" /\ ~(key /\ timestamp /\ host))
              => aresp.status = 401

\* the right key and a timestamp from a host that is not allowed: 401
C27_SyncFromForeignHostDenied ==
    /\ areq # Idle /\ aresp # Idle /\ areq.path_ok
    /\ areq.account = "AUTH_cfa" /\ areq.container # ""
    /\ areq.remote_user = ""
    /\ areq.swift_sync_key = "secret"
    /\ areq.x_container_sync_key = "secret"
    /\ areq.x_timestamp
    /\ areq.remote_addr = "10.1.1.1" /\ areq.remote_client = "10.1.1.1"
    /\ aresp.status = 401

\* C28: the record written by a successful PUT v2/<account>/<user> lists the
\* groups <account>:<user> and <account>, then .admin exactly when the admin
\* or the reseller-admin flag was set, then .reseller_admin exactly when the
\* reseller-admin flag was set.
C28_NewUserGroupsFollowFlags ==
    (req.op = "put_user" /\ resp.status = 201)
    => LET id == <<req.account, req.user>>
           own == <<req.account \o ":" \o req.user, req.account>>
           admin == req.x_auth_user_admin
           reseller == req.x_auth_user_reseller_admin
       IN  /\ users[id] # Missing
           /\ users[id].groups =
                 CASE reseller -> own \o <<".admin", ".reseller_admin">>
                   [] admin /\ ~reseller -> own \o <<".admin">>
                   [] OTHER -> own

\* a user created with the reseller-admin flag alone is in .admin too
C28_ResellerFlagAloneGivesAdmin ==
    /\ req.op = "put_user" /\ resp.status = 201
    /\ ~req.x_auth_user_admin /\ req.x_auth_user_reseller_admin
    /\ users[<<req.account, req.user>>] # Missing
    /\ users[<<req.account, req.user>>].groups
         = <<"act:usr", "act", ".admin", ".reseller_admin">>

\* C29: a credential that a codec (plaintext, sha1, sha512) wrote for a key K
\* matches K and no other key under the codec named in the credential, and
\* credentials_match and the token grant decide by that codec whatever
\* auth_type the middleware is configured with.
C29_CodecRoundTrip ==
    LET stored == users[<<"act", "usr">>]
    IN  stored # Missing
        => \A t \in CodecTypes, salt \in HashSalts, K \in HashKeys :
              stored.auth = encode_w_salt(t, salt, K)
              => /\ validate_creds(stored.auth).ok
                 /\ validate_creds(stored.auth).type = t
                 /\ \A K2 \in HashKeys :
                       /\ match(validate_creds(stored.auth), K2, stored.auth)
                            <=> K2 = K
                       /\ credentials_match(stored, K2) <=> K2 = K
                 /\ req.op = "get_token"
                    => (resp.status = 200 <=> req.key = K)

\* configured for sha512, a stored sha1 credential grants a token to its key
C29_Sha1VerifiedUnderSha512 ==
    /\ conf.auth_type = "Sha512"
    /\ users[<<"act", "usr">>] # Missing
    /\ users[<<"act", "usr">>].auth = sha1_encode_w_salt("rnd1", "key2")
    /\ req.op = "get_token" /\ req.key = "key2"
    /\ resp.status = 200

\* the key material of the credential stored for act:usr that the signature
\* of the S3 request was made with, if any: the cleartext key of a plaintext
\* credential, the hexadecimal digest of a salted one
SignedWithStored(r) ==
    LET stored == users[<<"act", "usr">>]
    IN  /\ r.s3.access_key = "act:usr"
        /\ stored # Missing
        /\ \E material \in {"key"} \cup {sha1_hexdigest(salt \o "key") :
                                              salt \in HashSalts} :
              /\ stored.auth \in {"plaintext:" \o material}
                                  \cup {"sha1:" \o salt \o "$" \o material :
                                            salt \in HashSalts}
              /\ r.s3.signature = hmac_sha1_base64(material, r.s3.string_to_sign)

\* S3 support is configured on and the codec is plaintext or has a fixed salt
S3Effective ==
    /\ conf.s3_support
    /\ conf.auth_type = "Plaintext" \/ conf.auth_type_salt # None

\* C30 as stated: an S3-signed request yields a principal only when S3
\* support is effective and the signature is the HMAC of string_to_sign under
\* the stored hash material; when S3 support is not effective every S3-signed
\* request is answered 400 by the middleware itself; a wrong signature sets
\* no principal.
C30_S3PrincipalOnlySigned ==
    (req.op = "call" /\ req.s3 # NoS3)
    => /\ resp.groups # None => (S3Effective /\ SignedWithStored(req))
       /\ ~S3Effective => (resp.status = 400 /\ resp.route = "self")
       /\ ~SignedWithStored(req) => resp.groups = None

\* C30 amended: the same, with the 400 owed only to the S3-signed requests
\* that the middleware does not pass through beforehand (a keystone identity,
\* OPTIONS, an allowed authorize override) or hand to the auth handler.
C30_S3PrincipalOnlySignedUnlessPassed ==
    (req.op = "call" /\ req.s3 # NoS3)
    => /\ resp.groups # None => (S3Effective /\ SignedWithStored(req))
       /\ (/\ ~S3Effective
           /\ ~req.keystone_identity
           /\ req.method # "OPTIONS"
           /\ ~(conf.allow_overrides /\ req.authorize_override)
           /\ ~startswith(req.path_info, "/auth"))
          => (resp.status = 400 /\ resp.route = "self")
       /\ ~SignedWithStored(req) => resp.groups = None

\* with the sha1 codec and a fixed salt, a request signed with the stored
\* digest yields the user's groups
C30_S3SignedWithStoredDigest ==
    /\ req.op = "call" /\ req.s3 # NoS3
    /\ conf.auth_type = "Sha1" /\ S3Effective
    /\ req.s3.signature
         = hmac_sha1_base64(sha1_hexdigest("saltkey"), req.s3.string_to_sign)
    /\ resp.groups # None
    /\ resp.route = "app"

\* C31: a PUT v2/<a>/<u> whose target is a stored user holding
\* .reseller_admin succeeds, and changes the record, only when the caller is
\* the super admin or that same user.
C31_ResellerAdminRecordOverwrittenOnlyBySelfOrSuper ==
    [][(/\ req'.op = "put_user"
        /\ UserObj(req'.account, req'.user) # Missing
        /\ InSeq(".reseller_admin", UserObj(req'.account, req'.user).groups)
        /\ ~is_super_admin(req')
        /\ req'.admin_user # req'.account \o ":" \o req'.user)
       => /\ resp'.status # 201
          /\ users' = users]_vars

\* the account admin act:adm, no reseller admin, has written the record of
\* act:usr without privilege headers, and act:usr holds no .reseller_admin
C31_AccountAdminOverwroteUser ==
    /\ req.op = "put_user"
    /\ req.account = "act" /\ req.user = "usr"
    /\ ~req.x_auth_user_admin /\ ~req.x_auth_user_reseller_admin
    /\ req.admin_user = "act:adm"
    /\ resp.status = 201
    /\ UserObj("act", "adm") # Missing
    /\ ~InSeq(".reseller_admin", UserObj("act", "adm").groups)
    /\ UserObj("act", "usr") # Missing
    /\ UserObj("act", "usr").groups = <<"act:usr", "act">>

\* C32: when a grant with X-Auth-New-Token succeeds for act:usr (the only
\* user that is granted tokens here) and the store answered every request,
\* no token minted before that grant validates afterwards: none has a live
\* cache entry or a token object that has not expired.
C32_NewTokenRevokesEveryOlderToken ==
    [][(/\ req'.op = "get_token" /\ req'.new_token
        /\ resp'.status = 200 /\ ~resp'.faulted)
       => \A n \in 1..minted :
             LET t == TokenName(n)
                 obj == tokens'[_get_concealed_token(t)]
             IN  /\ t # resp'.token
                 /\ ~(cache'[t] # Missing /\ cache'[t].expires >= now')
                 /\ ~(obj # Missing /\ obj.expires >= now')]_vars

\* a grant with X-Auth-New-Token has just succeeded and an older token of the
\* same user still has its unexpired token object
C32_OlderTokenSurvivesNewToken ==
    \E t \in Tokens :
        /\ req.op = "get_token" /\ req.new_token
        /\ resp.status = 200 /\ ~resp.faulted
        /\ t # resp.token
        /\ TokenObj(t) # Missing
        /\ TokenObj(t).account = req.account /\ TokenObj(t).user = req.user
        /\ TokenObj(t).expires >= now
        /\ TokenObj(resp.token) # Missing

\* C33: the middleware sets reseller_request on a request only if
\* .reseller_admin is one of the comma-separated groups of the validated
\* principal.
C33_ResellerRequestOnlyForResellerAdmin ==
    (req.op = "call" /\ resp.reseller_request)
    => /\ resp.groups # None
       /\ InSeq(".reseller_admin", split(resp.groups, ","))

\* the plain user act:usr.reseller_admin made a request with its token and
\* the request carries the flag
C33_PlainUserFlaggedAsReseller ==
    /\ req.op = "call"
    /\ resp.route = "app"
    /\ resp.groups = "act:usr.reseller_admin,act"
    /\ UserObj("act", "usr.reseller_admin") # Missing
    /\ ~InSeq(".reseller_admin", UserObj("act", "usr.reseller_admin").groups)
    /\ resp.reseller_request

\* C34: after a DELETE v2/<a> that failed part-way and left the container
\* of a, without users, in place, a repeated DELETE v2/<a> whose store and
\* cluster requests all succeed or find their target gone returns 204 and
\* leaves no container, no .services object and no mapping for a.
C34_RepeatedDeleteCompletes ==
    [][(/\ req.op = "delete_account" /\ resp.status \in {409, 500}
        /\ req'.op = "delete_account" /\ req'.account = req.account
        /\ req'.fail = "none"
        /\ containers[req.account] # Missing
        /\ containers[req.account].account_id # None
        /\ \A u \in UserNames : users[<<req.account, u>>] = Missing)
       => /\ resp'.status = 204
          /\ containers'[req.account] = Missing
          /\ services'[req.account] = Missing
          /\ mappings'[containers[req.account].account_id] = Missing]_vars

\* a DELETE failed at the container after it had deleted the storage
\* account, the .services object and the mapping: the repeated DELETE meets
\* a 404 at each of them
C34_DeleteFailedAtContainer ==
    /\ req.op = "delete_account" /\ req.fail = "container_delete"
    /\ resp.status = 500
    /\ containers["act"] # Missing
    /\ containers["act"].account_id # None
    /\ services["act"] = Missing
    /\ mappings[containers["act"].account_id] = Missing
    /\ \A h \in ClusterHosts :
          containers["act"].account_id \notin clusters[h]

\* C35: a principal obtained by validating a token issued to a user of
\* account act (every token here is), not a reseller admin, is never
\* authorized as swift_owner on a storage account whose .account_id mapping
\* names another account.
C35_OwnerOnlyOfOwnStorageAccount ==
    (/\ req.op = "call" /\ areq # Idle /\ aresp # Idle
     /\ resp.groups # None
     /\ ~InSeq(".reseller_admin", split(resp.groups, ","))
     /\ aresp.status = 0 /\ aresp.swift_owner)
    => (MappingObj(areq.account) = Missing
        \/ MappingObj(areq.account).body = "act")

\* act:adm, admin of act only, is owner of the storage account AUTH_sfx, whose
\* mapping names the account oth
C35_AdminOwnsOtherAccountsStorage ==
    /\ req.op = "call" /\ areq # Idle /\ aresp # Idle
    /\ resp.groups = "act:adm,act,AUTH_sfx"
    /\ areq.account = "AUTH_sfx"
    /\ aresp.status = 0 /\ aresp.swift_owner
    /\ MappingObj("AUTH_sfx") # Missing
    /\ MappingObj("AUTH_sfx").body = "oth"

\* two concurrent requests of one process call get_itoken, again and again,
\* each with or without a cache in its environment and with or without
\* X-Auth-New-Token, while time passes
InitMint ==
    /\ conf = DefaultConf
    /\ now = 0
    /\ users = [id \in UserIds |-> Missing]
    /\ tokens = [n \in ObjNames |-> Missing]
    /\ cache = [t \in Tokens |-> Missing]
    /\ containers = [a \in Accounts |-> Missing]
    /\ services = [a \in Accounts |-> Missing]
    /\ mappings = [id \in AcctIds |-> Missing]
    /\ clusters = [h \in ClusterHosts |-> {}]
    /\ itoken = NoItoken
    /\ minted = 0
    /\ revoked = {}
    /\ race = [calls |-> [c \in MintCalls |-> IdleCall], written |-> {}]
    /\ req = BlankReq
    /\ resp = Respond(Outcome(0))
    /\ areq = Idle
    /\ aresp = Idle

NextMint ==
    \/ \E c \in MintCalls, cache_ok \in BOOLEAN, new_token \in BOOLEAN :
          ItokenStart(c, cache_ok, new_token)
    \/ \E c \in MintCalls : ItokenSet(c)
    \/ Tick

SpecMint == InitMint /\ [][NextMint]_vars

\* C36: every step in which a call of get_itoken returns a token returns one
\* whose cache entry has been written, and every step in which a call raises
\* for want of a cache leaves the process's internal token and its expiry as
\* they were.
C36_ItokenReturnedOnlyOnceCached ==
    [][\A c \in MintCalls :
          /\ (race.calls[c].pc # "returned" /\ race'.calls[c].pc = "returned")
                => (reseller_prefix \o "/auth/" \o race'.calls[c].ret)
                      \in race'.written
          /\ (race.calls[c].pc # "raised" /\ race'.calls[c].pc = "raised")
                => (itoken'.token = itoken.token
                    /\ itoken'.expires = itoken.expires)]_vars

\* a call returned the token another call has assigned and is still writing
\* to the cache
C36_ItokenReturnedBeforeCacheWrite ==
    \E c \in MintCalls, d \in MintCalls :
        /\ c # d
        /\ race.calls[c].pc = "returned"
        /\ race.calls[d].pc = "set"
        /\ reseller_prefix \o "/auth/" \o race.calls[c].ret
              = race.calls[d].entry.key
        /\ race.calls[d].entry.key \notin race.written

\* two PUT v2/<a> arrive together over the auth account as POST v2/.prep
\* leaves it, for either account and any two suffixes
PairBegin ==
    /\ race = Idle
    /\ \E a \in Accounts, suffix1 \in Suffixes, suffix2 \in Suffixes :
          race' = PairStart(a, suffix1, suffix2)
    /\ UNCHANGED <<conf, now, users, tokens, cache, containers, services,
                   mappings, clusters, itoken, minted, revoked, req, resp, areq,
                   aresp>>

NextPair == PairBegin \/ \E w \in PutWorkers : PairPut(w)

SpecPair == PrepInit /\ [][NextPair]_vars

\* the account id in the default storage URL of an account's .services
ServicesAccountId(a) ==
    LET storage == services[a].storage
    IN  StorageAccount(urlparse(storage[storage["default"]]).path)

\* C37: when two concurrent PUT v2/<a> with different suffixes have both
\* succeeded, the container's account id, the account id in the default
\* storage URL of .services and every .account_id mapping whose body is a
\* name one and the same account id.
C37_ConcurrentCreatesAgreeOnAccountId ==
    (/\ race # Idle
     /\ \A w \in PutWorkers : /\ race.workers[w].pc = "done"
                               /\ race.workers[w].status \in {201, 202}
     /\ race.workers[1].suffix # race.workers[2].suffix)
    => LET a == race.account
       IN  /\ containers[a] # Missing
           /\ services[a] # Missing
           /\ ServicesAccountId(a) = containers[a].account_id
           /\ \A id \in AcctIds :
                 (mappings[id] # Missing /\ mappings[id].body = a)
                    => id = containers[a].account_id

\* both creates answered 201 and the container carries the id of one of
\* them while .services carries the id of the other
C37_ContainerAndServicesDisagree ==
    /\ race # Idle
    /\ \A w \in PutWorkers : /\ race.workers[w].pc = "done"
                              /\ race.workers[w].status = 201
    /\ race.workers[1].suffix # race.workers[2].suffix
    /\ containers[race.account].account_id
          = reseller_prefix \o race.workers[2].suffix
    /\ ServicesAccountId(race.account)
          = reseller_prefix \o race.workers[1].suffix

\* the super admin stores act:usr and act:adm with any flags and deletes
\* them, while a PUT v2/act/<user> that one of them sends for itself, asking
\* for .reseller_admin, is in flight; one such request follows another
SelfBegin ==
    /\ IF race = Idle THEN TRUE ELSE race.self.pc = "done"
    /\ \E user \in StockUserNames : race' = SelfStart(user)
    /\ UNCHANGED <<conf, now, users, tokens, cache, containers, services,
                   mappings, clusters, itoken, minted, revoked, req, resp, areq,
                   aresp>>

NextSelf ==
    \/ \E user \in StockUserNames, f \in AdminFlags :
          PutUser("act", user, "key", "", f.admin, f.reseller_admin,
                  SuperAdmin.admin_user, SuperAdmin.admin_key, "none")
    \/ \E user \in StockUserNames :
          DeleteUser("act", user, SuperAdmin.admin_user, SuperAdmin.admin_key,
                     "none")
    \/ SelfBegin
    \/ SelfPut

SpecSelf == Init /\ [][NextSelf]_vars

\* the stored record of act:<user> holds .reseller_admin
HoldsResellerAdmin(u, user) ==
    /\ u[<<"act", user>>] # Missing
    /\ InSeq(".reseller_admin", u[<<"act", user>>].groups)

\* C38: a step that writes a record with .reseller_admin for a user is a PUT
\* of the super admin, or the PUT of that user itself taken while the user's
\* stored record holds .reseller_admin.
C38_ResellerAdminWrittenOnlyWhileHeld ==
    [][\A user \in StockUserNames :
          (HoldsResellerAdmin(users', user)
           /\ users'[<<"act", user>>] # users[<<"act", user>>])
          => IF race' = race
             THEN req'.op = "put_user" /\ is_super_admin(req')
             ELSE HoldsResellerAdmin(users, user)]_vars

\* the last request of the super admin stored act:usr without
\* .reseller_admin, the PUT of act:usr for itself has since answered 201, and
\* the record of act:usr holds .reseller_admin
C38_DemotedUserRestoredItself ==
    /\ race # Idle
    /\ race.self.user = "usr"
    /\ race.self.pc = "done" /\ race.self.status = 201
    /\ req.op = "put_user" /\ req.user = "usr"
    /\ ~req.x_auth_user_reseller_admin
    /\ resp.status = 201
    /\ HoldsResellerAdmin(users, "usr")

\* the .services objects: the super admin creates the two accounts and posts
\* to their .services a second storage endpoint, a new default for the
\* storage map, naming the second endpoint or the first, and a second service
ServiceBodies ==
    {OtherEndpoint,
     [storage |-> [default |-> "other"]],
     [storage |-> [default |-> dsc_name]],
     [compute |-> [default |-> "nova", nova |-> "http://10.0.0.3:8774/v2"]]}

NextServices ==
    \/ \E a \in Accounts : PutAccount(a, a, SuperAdmin, "none")
    \/ \E a \in Accounts, new_services \in ServiceBodies :
          SetServices(a, new_services, SuperAdmin, "none")

SpecServices == PrepInit /\ [][NextServices]_vars

\* detail['storage'][detail['storage']['default']] of handle_get_token
\* finds a URL
DefaultResolves(detail) ==
    /\ "storage" \in DOMAIN detail
    /\ "default" \in DOMAIN detail.storage
    /\ detail.storage["default"] \in DOMAIN detail.storage \ {"default"}

\* C39: in every state reached through account create and set-services, the
\* .services object of a completed account has a storage map whose default
\* names an endpoint key of the map.
C39_ServicesDefaultNamesAnEndpoint ==
    \A a \in Accounts :
        (AlreadyCreated(containers[a]) /\ services[a] # Missing)
        => DefaultResolves(services[a])

\* a POST v2/act/.services answered 200 has left the default of the storage
\* map of the completed account act naming "other", which the map does not
\* hold
C39_DefaultNamesAbsentEndpoint ==
    /\ req.op = "set_services" /\ req.account = "act"
    /\ resp.status = 200
    /\ AlreadyCreated(containers["act"])
    /\ services["act"].storage["default"] = "other"
    /\ "other" \notin DOMAIN services["act"].storage

\* C40: in every state of the cache and the store and for every token that
\* begins with the reseller prefix, GET v2/.token/<T> answers 204 with
\* X-Auth-Groups g exactly when get_groups(T) returns g (otherwise 404 and
\* None), both leave the same token objects behind (an expired one deleted),
\* and the endpoint leaves the cache as it is.
C40_ValidateEndpointAgreesWithGetGroups ==
    \A token \in Tokens, fail \in {"none", "token_get", "token_delete"} :
        startswith(token, reseller_prefix)
        => LET g == get_groups(token, fail)
               v == handle_validate_token(token, fail)
           IN  /\ v.status \in {204, 404}
               /\ (v.status = 204) <=> (g.groups # None)
               /\ v.groups = g.groups
               /\ v.tokens = g.tokens
               /\ v.cache = cache
               /\ g.cache # cache => (g.groups # None /\ CachedGroups(token) = None)

\* GET v2/.token/<T> has answered 204 for a token of an account admin that
\* is not in the cache: the groups carry the account id in place of .admin,
\* they are the groups get_groups returns, and the cache is still empty
C40_EndpointTranslatedAdminToken ==
    /\ req.op = "validate_token"
    /\ resp.status = 204
    /\ CacheGet(req.token) = Missing
    /\ TokenObj(req.token) # Missing
    /\ InSeq(".admin", TokenObj(req.token).groups)
    /\ resp.groups = "act:usr,act,AUTH_act"
    /\ get_groups(req.token, "none").groups = resp.groups

====
